---- MODULE Spec2Model ----
(***************************************************************************)
(* Model of cuavanaslow.py: the playback verifier (try_play_in_vlc) and    *)
(* the batch orchestrator (process_all_movies_for_roku) with the manifest  *)
(* formatter (format_roku_xml); and, each in a specification of its own,   *)
(* the option selector (find_and_click_video_option), the prioritizer      *)
(* (get_best_m3u8_link), the harvester (find_m3u8_links, get_waaw_link),   *)
(* the redirect resolver (check_and_handle_iframe), the retry wrapper     *)
(* (retry_on_timeout) and the dispatch of main around the selector.        *)
(*                                                                         *)
(* Strings are modelled as sequences of tokens, so that substring tests,   *)
(* lower-casing and str.replace are computed, not assumed.                 *)
(***************************************************************************)
EXTENDS Integers, Sequences, FiniteSets, TLC

VARIABLES
    \* ---- environment
    installed,        \* the install locations at which os.path.exists finds vlc.exe
    procs,            \* player processes spawned: [link, idx, state, checks]
    \* ---- try_play_in_vlc (one activation at a time)
    vpc,              \* position inside try_play_in_vlc
    video_links_arg,  \* its parameter video_links
    auto_test,        \* its parameter auto_test
    filtered_links,   \* its local filtered_links
    v_i,              \* index of `link` in the loop over filtered_links
    v_ret,            \* its return value ("none" while running)
    looked_up,        \* number of loop iterations that looked for the executable
    prompts,          \* number of input() prompts answered in this activation
    response,         \* its local `response`: the answer as input() returned it
    \* ---- files
    history,          \* MainHistory.txt: [exists, lines]
    manifest,         \* RokuChannelList.xml: [exists, text]
    movies,           \* the non-blank lines of movie_links.txt
    \* ---- process_all_movies_for_roku
    pc,               \* position inside process_all_movies_for_roku
    processed_movies, \* its set of lower-cased titles read from the history
    content,          \* its in-memory manifest text without the closing tag
    i,                \* index of movie_line in movies
    title,            \* its local `title` (Unbound before the first assignment)
    sessions,         \* catalog indices whose Chrome instance is running
    movie_details,    \* result of get_movie_details
    is_netu,          \* second value returned by find_and_click_video_option
    final_url,        \* result of check_and_handle_iframe
    video_links,      \* result of find_m3u8_links
    b_j,              \* index of `link` in the loop over video_links
    working_link,
    roku_xml,         \* result of format_roku_xml
    attempt,          \* loop variable of the dropdown click loop
    \* ---- history of the run (observation only; no action reads these)
    history0,         \* MainHistory.txt as it was when the run started
    manifest0,        \* RokuChannelList.xml as it was when the run started
    opened_for,       \* catalog indices for which webdriver.Chrome() returned
    verified,         \* <<index, link>> for which the orchestrator's check passed
    writes,           \* the file writes of the run: [target, file, link]
    succeeded,        \* targets that reached "Successfully processed"
    d_clicks,         \* the dropdown click loop of the target: how each click
                      \* script ended, and each time.sleep(2)
    steps,            \* the pipeline steps of the target, in the order they ran
    harvested,        \* the find_m3u8_links call of the target, until the
                      \* verifier is called: [target, redirect, flag,
                      \* special]
    \* ---- find_and_click_video_option (one activation)
    s_pc,             \* position inside find_and_click_video_option
    source_flags,     \* its parameter source_flags: [given, on]
    s_page,           \* the options wait_for_element finds on the page
    options_to_try,   \* its local options_to_try
    s_k,              \* index of the loop over options_to_try
    s_ret,            \* its return value (<<>> while running)
    s_looked,         \* the options wait_for_element was called for, in order
    s_clicked,        \* the options whose click script ran to its end
    s_settled,        \* the sleep(8) after a click is over
    \* ---- get_best_m3u8_link (one activation)
    p_pc,             \* position inside get_best_m3u8_link
    p_links,          \* its parameter video_links
    p_ret,            \* its return value
    \* ---- find_m3u8_links (one activation)
    h_pc,             \* position inside find_m3u8_links
    h_is_netu,        \* its parameter is_netu
    h_frames,         \* the src of each iframe of the page, in document order
    h_f,              \* index of `iframe` in the loop over iframes
    h_context,        \* the browsing context of the driver: 0 is the top level
    m3u8_links,       \* its local set m3u8_links
    h_ret,            \* its return value
    h_seen,           \* log entries a get_log call of this activation returned
    h_again,          \* log entries returned by more than one get_log call
    h_scans,          \* the get_log calls that returned: <<phase, context>>
    h_switches,       \* the frames switch_to.frame was called for
    h_failed,         \* the frame inspection of get_waaw_link raised
    h_late,           \* the URLs only the final scan added to m3u8_links
    \* ---- check_and_handle_iframe (one activation)
    r_pc,             \* position inside check_and_handle_iframe
    r_frames,         \* the src of each iframe of the page, in document order
    r_k,              \* index of `iframe` in the loop over iframes
    r_stale,          \* the driver left the page the iframes were found on
    r_t,              \* whole seconds since start_time was last assigned
    r_elapsed,        \* its local `elapsed`, as last logged
    r_ret,            \* its return value
    r_read,           \* the frames whose src get_attribute returned, in order
    r_navs,           \* the frames driver.get was called for, in order
    r_clicks,         \* the clicks on the play control that did not raise
    r_waited,         \* whole seconds spent in the polling loops of this call
    r_polls,          \* reads of driver.current_url by the polling loops
    r_failed,         \* a provider branch ended in its handler, without a URL
    r_end,            \* how the call ended ("none" while running)
    \* ---- retry_on_timeout (one call of the wrapper it builds)
    w_pc,             \* position inside wrapper
    retries,          \* the parameter retries of retry_on_timeout
    delay,            \* the parameter delay of retry_on_timeout, in seconds
    w_attempt,        \* its loop variable `attempt`
    w_out,            \* how wrapper ended: [kind, what, at]
    w_log,            \* how each call of func ended, and each time.sleep
    w_slept,          \* seconds slept by wrapper
    \* ---- main (its dispatch on the command line, around the selector)
    m_pc,             \* position inside main
    args,             \* the parsed command line: [rokuall, flags], flags
                      \* being the restriction flags that were given
    m_harvest         \* the second argument of the find_m3u8_links call of
                      \* the current target, in a sequence of its own

vvars == <<procs, vpc, video_links_arg, auto_test, filtered_links,
           v_i, v_ret, looked_up, prompts, response>>

svars == <<s_pc, source_flags, s_page, options_to_try, s_k, s_ret, s_looked,
           s_clicked, s_settled>>

pvars == <<p_pc, p_links, p_ret>>

hvars == <<h_pc, h_is_netu, h_frames, h_f, h_context, m3u8_links, h_ret,
           h_seen, h_again, h_scans, h_switches, h_failed, h_late>>

rvars == <<r_pc, r_frames, r_k, r_stale, r_t, r_elapsed, r_ret, r_read,
           r_navs, r_clicks, r_waited, r_polls, r_failed, r_end>>

wvars == <<w_pc, retries, delay, w_attempt, w_out, w_log, w_slept>>

mvars == <<m_pc, args, m_harvest>>

\* Never assigned by the verifier or by the orchestrator.
fixed == <<installed, movies, history0, manifest0, svars, pvars, hvars,
           rvars, wvars, mvars>>

bvars == <<history, manifest, pc, processed_movies, content, i, title,
           sessions, movie_details, is_netu, final_url, video_links, b_j,
           working_link, roku_xml, opened_for, verified, writes, succeeded,
           attempt, d_clicks, steps, harvested>>

vars == <<fixed, vvars, bvars>>

\* The state of the verifier and of the orchestrator, with the environment.
program == <<installed, movies, history0, manifest0, vvars, bvars, mvars>>

-----------------------------------------------------------------------------
(* Bounds of the model *)

MaxLinks == 3
MaxPrompts == 2
MaxMovies == 2
MaxFrames == 2
MaxRetries == 3

-----------------------------------------------------------------------------
(* The functions modelled in specifications of their own, when not called *)

\* A function that has not returned.
NotReturned == <<>>

\* None of the functions modelled on their own is being called, except the
\* one named by `called`.
OthersIdle(called) ==
    /\ called = "selector" \/
          /\ s_pc = "idle"
          /\ source_flags = [given |-> FALSE, on |-> {}]
          /\ s_page = {}
          /\ options_to_try = <<>>
          /\ s_k = 0
          /\ s_ret = NotReturned
          /\ s_looked = <<>>
          /\ s_clicked = <<>>
          /\ s_settled = FALSE
    /\ called = "prioritizer" \/
          /\ p_pc = "idle"
          /\ p_links = <<>>
          /\ p_ret = NotReturned
    /\ called = "harvester" \/
          /\ h_pc = "idle"
          /\ h_is_netu = FALSE
          /\ h_frames = <<>>
          /\ h_f = 0
          /\ h_context = 0
          /\ m3u8_links = {}
          /\ h_ret = <<>>
          /\ h_seen = {}
          /\ h_again = {}
          /\ h_scans = <<>>
          /\ h_switches = <<>>
          /\ h_failed = FALSE
          /\ h_late = {}
    /\ called = "resolver" \/
          /\ r_pc = "idle"
          /\ r_frames = <<>>
          /\ r_k = 0
          /\ r_stale = FALSE
          /\ r_t = 0
          /\ r_elapsed = 0
          /\ r_ret = NotReturned
          /\ r_read = <<>>
          /\ r_navs = <<>>
          /\ r_clicks = <<>>
          /\ r_waited = 0
          /\ r_polls = 0
          /\ r_failed = FALSE
          /\ r_end = "none"
    /\ called = "retry" \/
          /\ w_pc = "idle"
          /\ retries = 0
          /\ delay = 0
          /\ w_attempt = 0
          /\ w_out = [kind |-> "none", what |-> "", at |-> 0]
          /\ w_log = <<>>
          /\ w_slept = 0
    /\ called = "main" \/
          /\ m_pc = "idle"
          /\ args = [rokuall |-> FALSE, flags |-> {}]
          /\ m_harvest = <<>>

-----------------------------------------------------------------------------
(* Strings as token sequences *)

\* Python `pat in s` for token sequences: pat occurs as a contiguous run of s.
Contains(s, pat) ==
    \E k \in 0..(Len(s) - Len(pat)) :
        \A j \in 1..Len(pat) : s[k + j] = pat[j]

\* All sequences over S of length at most n.
SeqsUpTo(S, n) == UNION {[1..k -> S] : k \in 0..n}

\* Candidate links of the model.
LinkIndex == <<"cdn-a/", "index", ".m3u8">>
LinkMaster == <<"cdn-b/", "master", ".m3u8">>
LinkSwiftStream == <<"swiftplayers.com", "/stream/", "v", ".m3u8">>
LinkSwiftOther == <<"swiftplayers.com", "/hls/", "v", ".m3u8">>
LinkJonathan == <<"cdn.", "jonathansociallike.com", "/v", ".m3u8">>

\* The links try_play_in_vlc is called with on its own.
Links == {LinkIndex, LinkSwiftStream, LinkSwiftOther, LinkJonathan}

-----------------------------------------------------------------------------
(* Titles, catalog lines, history lines *)

\* str.lower() on one character, or one token, of the model's alphabet.
LowerChar(c) ==
    CASE c = "M" -> "m"
      [] c = "E" -> "e"
      [] c = "N" -> "n"
      [] c = "S" -> "s"
      [] c = "X" -> "x"
      [] c = "Y" -> "y"
      [] c = "INDEX" -> "index"
      [] c = "MASTER" -> "master"
      [] OTHER -> c

\* str.lower()
Lower(s) == [k \in DOMAIN s |-> LowerChar(s[k])]

\* Variant of LowerForHistory that keeps the case.
KeepCase(s) == s

\* The .lower() applied to a history title before processed_movies.add.
LowerForHistory(s) == Lower(s)

RECURSIVE LStrip(_)
LStrip(s) == IF s # <<>> /\ Head(s) = " " THEN LStrip(Tail(s)) ELSE s

RECURSIVE RStrip(_)
RStrip(s) ==
    IF s # <<>> /\ s[Len(s)] = " " THEN RStrip(SubSeq(s, 1, Len(s) - 1)) ELSE s

\* str.strip()
Strip(s) == RStrip(LStrip(s))

\* A line of text is modelled by line.split(' | '): its sequence of segments.
TitleMx == <<"M", "x">>
TitleMX == <<"M", "X">>
TitleY == <<"Y">>
TitleYPadded == <<"y", " ">>

CatalogLines ==
    { <<TitleMx, <<"url-1">>>>,
      <<TitleMX, <<"url-2">>>>,
      <<TitleY, <<"url-3">>>>,
      <<<<"no-separator">>>> }

HistoryMx == <<<<"m", "X">>, LinkIndex>>
HistoryY == <<TitleYPadded, LinkMaster>>
HistoryBad == <<<<"no-separator">>>>

\* The value of a local that was never assigned.
Unbound == <<"<unbound>">>

\* processed_movies as built by the loop over the lines of MainHistory.txt.
LoadHistory(h) ==
    IF h.exists
    THEN { LowerForHistory(Strip(h.lines[k][1])) :
             k \in {n \in DOMAIN h.lines : Len(h.lines[n]) >= 2} }
    ELSE {}

-----------------------------------------------------------------------------
(* The manifest text: a sequence of tokens *)

Tok(tag) == [tag |-> tag, title |-> <<>>, url |-> <<>>, desc |-> ""]

OpenTag == Tok("<Content>")
CloseTag == Tok("</Content>")
NL == Tok("newline")

\* The <item> text built by format_roku_xml. desc is "plain" for a
\* description without the text '</Content>', "has_close" for one that
\* contains it, and "cut" for the latter with that text removed.
Item(t, u, d) == [tag |-> "item", title |-> t, url |-> u, desc |-> d]

\* text.replace('</Content>', '') on one token.
CutToken(tok) ==
    IF tok.tag = "item" /\ tok.desc = "has_close"
    THEN [tok EXCEPT !.desc = "cut"]
    ELSE tok

\* content.replace('</Content>', ''): every occurrence is removed.
StripClosing(text) ==
    LET kept == SelectSeq(text, LAMBDA tok : tok # CloseTag)
    IN  [k \in DOMAIN kept |-> CutToken(kept[k])]

Items(text) == SelectSeq(text, LAMBDA tok : tok.tag = "item")

\* A manifest file as earlier runs wrote it.
ManifestOf(items) ==
    [exists |-> TRUE,
     text |-> <<OpenTag, NL>> \o items \o <<NL, CloseTag>>]

\* What a run can find on disk: nothing, or the two files as earlier runs
\* (and an editor of the history) left them.
InitialDisks ==
    { [history |-> [exists |-> FALSE, lines |-> <<>>],
       manifest |-> [exists |-> FALSE, text |-> <<>>]],
      [history |-> [exists |-> TRUE, lines |-> <<HistoryBad, HistoryMx>>],
       manifest |-> ManifestOf(<<NL, Item(<<"m", "X">>, LinkIndex, "plain")>>)],
      [history |-> [exists |-> TRUE, lines |-> <<HistoryY>>],
       manifest |-> ManifestOf(<<NL, Item(<<"y">>, LinkMaster, "has_close")>>)] }

-----------------------------------------------------------------------------
(* try_play_in_vlc: pure parts *)

\* Variant of KeepLink that keeps every link.
KeepLinkUnfiltered(link) == TRUE

\* The condition of the list comprehension that builds filtered_links.
KeepLink(link) ==
    /\ ~Contains(link, <<"swiftplayers.com", "/stream/">>)
    /\ ~Contains(link, <<"jonathansociallike.com">>)

\* filtered_links = [link for link in video_links if ...]
FilterLinks(links) == SelectSeq(links, KeepLink)

\* The install locations, in the order the code tests them.
VlcPaths == <<"ProgramFiles", "ProgramFilesX86", "LocalAppData">>

\* The path the lookup settles on, or "none" (the for-else branch).
FindVlc(inst) ==
    IF VlcPaths[1] \in inst THEN VlcPaths[1]
    ELSE IF VlcPaths[2] \in inst THEN VlcPaths[2]
    ELSE IF VlcPaths[3] \in inst THEN VlcPaths[3]
    ELSE "none"

Running(ps) == {k \in DOMAIN ps : ps[k].state = "running"}

\* Lines typed at the prompt "Is the video playing correctly in VLC? (yes/no): ".
Answers ==
    {<<"y", "e", "s">>, <<"Y", "E", "S">>, <<"N", "o", " ">>, <<"y">>}

\* input(...).lower().strip()
Normalized(answer) == Strip(Lower(answer))

CurrentLink == filtered_links[v_i]

-----------------------------------------------------------------------------
(* try_play_in_vlc: the steps of one activation *)

\* `continue`: the next link of filtered_links, or the fall-through to the
\* final `return False` once the list is exhausted.
VContinue ==
    IF v_i < Len(filtered_links)
    THEN /\ v_i' = v_i + 1
         /\ vpc' = "lookup"
         /\ v_ret' = v_ret
    ELSE /\ v_i' = v_i
         /\ vpc' = "returned"
         /\ v_ret' = "False"

VReturn(value) ==
    /\ vpc' = "returned"
    /\ v_ret' = value
    /\ v_i' = v_i

\* A process record: the link it plays, the index of that link in
\* filtered_links, its state (running, exited on its own, terminated by the
\* verifier), the number of process.poll() calls that found it alive, the
\* seconds the verifier has slept since it spawned it, and the catalog index
\* the orchestrator was at (0 outside a batch run).
NewProcess(link, idx) ==
    [link |-> link, idx |-> idx, state |-> "running", checks |-> 0,
     age |-> 0, target |-> i]

\* time.sleep(seconds) with the last spawned process held in `process`.
Slept(ps, seconds) == [ps EXCEPT ![Len(ps)].age = @ + seconds]

\* process.poll() is None, for the process held in `process` (the last spawned).
PolledAlive(ps) == [ps EXCEPT ![Len(ps)].checks = @ + 1]

\* process.poll() found the process gone.
Exited(ps) == [ps EXCEPT ![Len(ps)].state = "exited"]

\* process.terminate() on the process held in `process`.
Terminate(ps) == [ps EXCEPT ![Len(ps)].state = "terminated"]

\* Function entry: the empty-input test, the filter, the empty-filtered test.
V_Enter ==
    /\ vpc = "call"
    /\ looked_up' = 0
    /\ prompts' = 0
    /\ response' = Unbound
    /\ procs' = SelectSeq(procs, LAMBDA p : p.state = "running")
    /\ IF video_links_arg = <<>>
       THEN /\ filtered_links' = <<>>
            /\ VReturn("False")
       ELSE /\ filtered_links' = FilterLinks(video_links_arg)
            /\ IF filtered_links' = <<>>
               THEN VReturn("False")
               ELSE /\ v_i' = 1
                    /\ vpc' = "lookup"
                    /\ v_ret' = "none"
    /\ UNCHANGED <<fixed, bvars, video_links_arg, auto_test>>

\* Variant of V_Lookup that skips only the current link when the executable
\* is missing.
V_LookupContinue ==
    /\ vpc = "lookup"
    /\ looked_up' = looked_up + 1
    /\ IF FindVlc(installed) = "none"
       THEN VContinue
       ELSE /\ vpc' = "spawn"
            /\ UNCHANGED <<v_i, v_ret>>
    /\ UNCHANGED <<fixed, bvars, procs, video_links_arg, auto_test,
                   filtered_links, prompts, response>>

\* Top of a loop iteration: the search for the executable.
V_Lookup ==
    /\ vpc = "lookup"
    /\ looked_up' = looked_up + 1
    /\ IF FindVlc(installed) = "none"
       THEN VReturn("False")
       ELSE /\ vpc' = "spawn"
            /\ UNCHANGED <<v_i, v_ret>>
    /\ UNCHANGED <<fixed, bvars, procs, video_links_arg, auto_test,
                   filtered_links, prompts, response>>

\* subprocess.Popen([vlc_path, link]) succeeds.
V_Spawn ==
    /\ vpc = "spawn"
    /\ procs' = Append(procs, NewProcess(CurrentLink, v_i))
    /\ vpc' = "check5"
    /\ UNCHANGED <<fixed, bvars, video_links_arg, auto_test, filtered_links,
                   v_i, v_ret, looked_up, prompts, response>>

\* subprocess.Popen raises (the file cannot be executed): except, continue.
V_SpawnRaises ==
    /\ vpc = "spawn"
    /\ VContinue
    /\ UNCHANGED <<fixed, bvars, procs, video_links_arg, auto_test,
                   filtered_links, looked_up, prompts, response>>

\* After sleep(5): process.poll() is None.
V_Check5Alive ==
    /\ vpc = "check5"
    /\ procs' = PolledAlive(Slept(procs, 5))
    /\ vpc' = IF auto_test THEN "check25" ELSE "prompt"
    /\ UNCHANGED <<fixed, bvars, video_links_arg, auto_test,
                   filtered_links, v_i, v_ret, looked_up, prompts, response>>

\* Variant of V_Check5Dead that goes on to the second check.
V_Check5DeadGoesOn ==
    /\ vpc = "check5"
    /\ procs' = Exited(Slept(procs, 5))
    /\ vpc' = IF auto_test THEN "check25" ELSE "prompt"
    /\ UNCHANGED <<fixed, bvars, video_links_arg, auto_test, filtered_links,
                   v_i, v_ret, looked_up, prompts, response>>

\* After sleep(5): the process has exited; continue.
V_Check5Dead ==
    /\ vpc = "check5"
    /\ procs' = Exited(Slept(procs, 5))
    /\ VContinue
    /\ UNCHANGED <<fixed, bvars, video_links_arg, auto_test, filtered_links,
                   looked_up, prompts, response>>

\* Variant of V_Check25Alive that returns True without process.terminate().
V_Check25AliveLeak ==
    /\ vpc = "check25"
    /\ procs' = PolledAlive(Slept(procs, 25))
    /\ VReturn("True")
    /\ UNCHANGED <<fixed, bvars, video_links_arg, auto_test, filtered_links,
                   looked_up, prompts, response>>

\* auto_test, after sleep(25): still running; terminate, sleep(2), return True.
V_Check25Alive ==
    /\ vpc = "check25"
    /\ procs' = Terminate(PolledAlive(Slept(procs, 25)))
    /\ VReturn("True")
    /\ UNCHANGED <<fixed, bvars, video_links_arg, auto_test, filtered_links,
                   looked_up, prompts, response>>

\* auto_test, after sleep(25): the process has exited; continue.
V_Check25Dead ==
    /\ vpc = "check25"
    /\ procs' = Exited(Slept(procs, 25))
    /\ VContinue
    /\ UNCHANGED <<fixed, bvars, video_links_arg, auto_test, filtered_links,
                   looked_up, prompts, response>>

\* Interactive: an answer other than yes/no; the while loop prompts again.
V_PromptOther ==
    /\ vpc = "prompt"
    /\ prompts < MaxPrompts
    /\ \E answer \in Answers :
          /\ Normalized(answer) \notin {<<"y", "e", "s">>, <<"n", "o">>}
          /\ response' = answer
    /\ prompts' = prompts + 1
    /\ UNCHANGED <<fixed, bvars, procs, vpc, video_links_arg, auto_test,
                   filtered_links, v_i, v_ret, looked_up>>

\* Interactive: "yes"; return True with the process left running.
V_PromptYes ==
    /\ vpc = "prompt"
    /\ \E answer \in Answers :
          /\ Normalized(answer) = <<"y", "e", "s">>
          /\ response' = answer
    /\ prompts' = prompts + 1
    /\ VReturn("True")
    /\ UNCHANGED <<fixed, bvars, procs, video_links_arg, auto_test,
                   filtered_links, looked_up>>

\* Variant of V_PromptNo that moves on without process.terminate().
V_PromptNoLeak ==
    /\ vpc = "prompt"
    /\ \E answer \in Answers :
          /\ Normalized(answer) = <<"n", "o">>
          /\ response' = answer
    /\ prompts' = prompts + 1
    /\ VContinue
    /\ UNCHANGED <<fixed, bvars, procs, video_links_arg, auto_test,
                   filtered_links, looked_up>>

\* Interactive: "no"; terminate, sleep(2), continue.
V_PromptNo ==
    /\ vpc = "prompt"
    /\ \E answer \in Answers :
          /\ Normalized(answer) = <<"n", "o">>
          /\ response' = answer
    /\ prompts' = prompts + 1
    /\ procs' = Terminate(procs)
    /\ VContinue
    /\ UNCHANGED <<fixed, bvars, video_links_arg, auto_test, filtered_links,
                   looked_up>>

\* Interactive: input() raises (EOFError on a closed stdin). The handler of
\* the loop body logs and continues; nothing terminates the process.
V_PromptRaises ==
    /\ vpc = "prompt"
    /\ VContinue
    /\ UNCHANGED <<fixed, bvars, procs, video_links_arg, auto_test,
                   filtered_links, looked_up, prompts, response>>

VerifierAuto ==
    \/ V_Enter
    \/ V_Lookup
    \/ V_Spawn
    \/ V_SpawnRaises
    \/ V_Check5Alive
    \/ V_Check5Dead
    \/ V_Check25Alive
    \/ V_Check25Dead

VerifierInteractive ==
    \/ V_PromptOther
    \/ V_PromptYes
    \/ V_PromptNo
    \/ V_PromptRaises

-----------------------------------------------------------------------------
(* process_all_movies_for_roku *)

\* Python None for a string, for movie_details and for roku_xml.
None == <<"<None>">>
NoDetails == [title |-> <<>>, desc |-> "<None>"]
NoXml == Tok("<None>")

NoTarget ==
    /\ movie_details = NoDetails
    /\ is_netu = FALSE
    /\ final_url = None
    /\ video_links = <<>>
    /\ b_j = 0
    /\ working_link = None
    /\ roku_xml = NoXml

\* The orchestrator is not running.
BatchIdle ==
    /\ history = [exists |-> FALSE, lines |-> <<>>]
    /\ manifest = [exists |-> FALSE, text |-> <<>>]
    /\ movies = <<>>
    /\ pc = "idle"
    /\ processed_movies = {}
    /\ content = <<>>
    /\ i = 0
    /\ title = Unbound
    /\ sessions = {}
    /\ NoTarget
    /\ history0 = history
    /\ manifest0 = manifest
    /\ opened_for = {}
    /\ verified = {}
    /\ writes = <<>>
    /\ succeeded = <<>>
    /\ attempt = 0
    /\ d_clicks = <<>>
    /\ steps = <<>>
    /\ harvested = <<>>

\* One call of try_play_in_vlc on any candidate list, in either mode.
InitVerifier ==
    /\ BatchIdle
    /\ OthersIdle("none")
    /\ installed \in SUBSET {VlcPaths[k] : k \in DOMAIN VlcPaths}
    /\ procs = <<>>
    /\ vpc = "call"
    /\ video_links_arg \in SeqsUpTo(Links, MaxLinks)
    /\ auto_test \in BOOLEAN
    /\ filtered_links = <<>>
    /\ v_i = 0
    /\ v_ret = "none"
    /\ looked_up = 0
    /\ prompts = 0
    /\ response = Unbound

NextVerifier == VerifierAuto \/ VerifierInteractive

SpecVerifier == InitVerifier /\ [][NextVerifier]_vars

-----------------------------------------------------------------------------
(* process_all_movies_for_roku: the steps *)

\* Links a page of the model can produce in its network log.
PageLinks == {LinkIndex, LinkMaster}

\* What the page at a catalog URL shows as its description: the page of
\* url-3 has a description that contains the text '</Content>'.
PageDescription(url) == IF url = <<"url-3">> THEN "has_close" ELSE "plain"

LinkWaaw == <<"waaw.to", "/f/", "v">>

\* list(set(...)): the elements of any subset of S, in any order.
NoDupSeqs(S) ==
    {q \in SeqsUpTo(S, Cardinality(S)) :
        \A a, b \in DOMAIN q : a # b => q[a] # q[b]}

\* Variant of HarvestMode that asks for the special mode whenever the
\* resolver returned nothing.
HarvestModeWithoutRedirect(url, flag) == url = None

\* The second argument of the find_m3u8_links call: False after a redirect
\* (`if final_url`), else the flag the selector returned.
HarvestMode(url, flag) == IF url # None THEN FALSE ELSE flag

\* What find_m3u8_links(driver, special) can return.
HarvestResults(special) ==
    IF special
    THEN {<<>>, <<LinkWaaw>>}
    ELSE NoDupSeqs(PageLinks)

locals == <<movie_details, is_netu, final_url, video_links, b_j,
            working_link, roku_xml>>
observed == <<opened_for, verified, writes, succeeded>>
files == <<history, manifest>>
click_loop == <<attempt, d_clicks>>
loaded == <<processed_movies, content>>

\* `continue` of the loop over movies. The per-target locals are reassigned
\* before they are read again, so the model clears them here.
Continue ==
    /\ i' = i + 1
    /\ pc' = "loop"
    /\ movie_details' = NoDetails
    /\ is_netu' = FALSE
    /\ final_url' = None
    /\ video_links' = <<>>
    /\ b_j' = 0
    /\ working_link' = None
    /\ roku_xml' = NoXml

\* The finally clause: driver.quit().
Quit == sessions' = sessions \ {i}

\* Leaving the try block of one target by `continue` or by an exception,
\* after the steps `done`.
QuitAndContinue(done) ==
    /\ Quit
    /\ Continue
    /\ steps' = steps \o done \o <<"session_close">>
    /\ UNCHANGED <<fixed, click_loop, harvested, files, loaded, title,
                   observed>>

\* The reads before the loop: history, catalog, manifest.
B_Load ==
    /\ pc = "start"
    /\ processed_movies' = LoadHistory(history)
    /\ content' = IF manifest.exists
                  THEN StripClosing(manifest.text)
                  ELSE <<OpenTag, NL>>
    /\ i' = 1
    /\ pc' = "loop"
    /\ UNCHANGED <<fixed, harvested, click_loop, steps, vvars, files, title,
                   sessions, locals, observed>>

\* The loop is exhausted.
B_Done ==
    /\ pc = "loop"
    /\ i > Len(movies)
    /\ pc' = "done"
    /\ UNCHANGED <<fixed, harvested, click_loop, steps, vvars, files, loaded,
                   i, title, sessions, locals, observed>>

\* movie_line.split(' | ') does not give two values: ValueError, caught by
\* the handler of the loop body, whose log message reads `title`. With
\* `title` never assigned that read raises, and the outer handler re-raises.
B_BadLine ==
    /\ pc = "loop"
    /\ i <= Len(movies)
    /\ Len(movies[i]) # 2
    /\ IF title = Unbound
       THEN /\ pc' = "aborted"
            /\ UNCHANGED <<i, locals>>
       ELSE Continue
    /\ UNCHANGED <<fixed, harvested, click_loop, steps, vvars, files, loaded,
                   title, sessions, observed>>

\* title.lower() in processed_movies: skip.
B_Skip ==
    /\ pc = "loop"
    /\ i <= Len(movies)
    /\ Len(movies[i]) = 2
    /\ Lower(Strip(movies[i][1])) \in processed_movies
    /\ title' = Strip(movies[i][1])
    /\ Continue
    /\ UNCHANGED <<fixed, harvested, click_loop, steps, vvars, files, loaded,
                   sessions, observed>>

\* A title not in processed_movies: go on to start the browser.
B_Begin ==
    /\ pc = "loop"
    /\ i <= Len(movies)
    /\ Len(movies[i]) = 2
    /\ Lower(Strip(movies[i][1])) \notin processed_movies
    /\ title' = Strip(movies[i][1])
    /\ pc' = "chrome"
    /\ attempt' = 0
    /\ d_clicks' = <<>>
    /\ steps' = <<>>
    /\ harvested' = <<>>
    /\ UNCHANGED <<fixed, vvars, files, loaded, i, sessions, locals, observed>>

\* webdriver.Chrome(options=chrome_options) returns a driver.
B_StartChrome ==
    /\ pc = "chrome"
    /\ sessions' = sessions \cup {i}
    /\ opened_for' = opened_for \cup {i}
    /\ pc' = "configure"
    /\ steps' = steps \o <<"session_open">>
    /\ UNCHANGED <<fixed, harvested, click_loop, vvars, files, loaded, i,
                   title, locals, verified, writes, succeeded>>

\* webdriver.Chrome raises: no browser; the loop handler continues.
B_StartChromeRaises ==
    /\ pc = "chrome"
    /\ Continue
    /\ UNCHANGED <<fixed, harvested, click_loop, steps, vvars, files, loaded,
                   title, sessions, observed>>

\* set_page_load_timeout and the two execute_cdp_cmd calls succeed.
B_Configure ==
    /\ pc = "configure"
    /\ pc' = "page"
    /\ UNCHANGED <<fixed, harvested, click_loop, steps, vvars, files, loaded,
                   i, title, sessions, locals, observed>>

\* One of them raises. These calls stand before the try/finally, so the
\* loop handler continues without driver.quit().
B_ConfigureRaises ==
    /\ pc = "configure"
    /\ Continue
    /\ UNCHANGED <<fixed, harvested, click_loop, steps, vvars, files, loaded,
                   title, sessions, observed>>

\* driver.get, the readyState wait, get_movie_details, overlay removal.
\* The page is taken to show the catalog title.
B_Page ==
    /\ pc = "page"
    /\ movie_details' = [title |-> title,
                         desc |-> PageDescription(Strip(movies[i][2]))]
    /\ pc' = "dropdown"
    /\ steps' = steps \o <<"details_scrape", "overlay_removal">>
    /\ UNCHANGED <<fixed, harvested, click_loop, vvars, files, loaded, i,
                   title, sessions, is_netu, final_url, video_links, b_j,
                   working_link, roku_xml, observed>>

\* get_movie_details returned None: continue.
B_PageNoDetails ==
    /\ pc = "page"
    /\ QuitAndContinue(<<"no_details">>)
    /\ UNCHANGED vvars

\* driver.get or the readyState wait raises.
B_PageRaises ==
    /\ pc = "page"
    /\ QuitAndContinue(<<>>)
    /\ UNCHANGED vvars

\* wait_for_element(..., timeout=20) returns the dropdown button; the click
\* loop starts.
B_DropdownWait ==
    /\ pc = "dropdown"
    /\ attempt' = 0
    /\ steps' = Append(steps, "dropdown_wait")
    /\ pc' = "click"
    /\ UNCHANGED <<fixed, harvested, vvars, files, loaded, i, title, sessions,
                   locals, observed, d_clicks>>

\* One of its two waits times out: it logs and re-raises, and the loop
\* handler continues.
B_DropdownWaitRaises ==
    /\ pc = "dropdown"
    /\ QuitAndContinue(<<"wait_timed_out">>)
    /\ UNCHANGED vvars

\* The click script runs to its end: sleep(2), break.
B_Click ==
    /\ pc = "click"
    /\ d_clicks' = d_clicks \o <<"clicked", "sleep">>
    /\ steps' = Append(steps, "dropdown_click")
    /\ pc' = "select"
    /\ UNCHANGED <<fixed, harvested, vvars, files, loaded, i, title, sessions,
                   locals, observed, attempt>>

\* Variant of B_ClickIntercepted that retries without a limit.
B_ClickInterceptedAgain ==
    /\ pc = "click"
    /\ d_clicks' = d_clicks \o <<"intercepted", "sleep">>
    /\ attempt' = attempt + 1
    /\ UNCHANGED <<fixed, harvested, vvars, files, loaded, i, title, sessions,
                   locals, observed, pc, steps>>

\* The click script raises ElementClickInterceptedException: at attempt 2 it
\* is re-raised to the loop handler, before that sleep(2) and the next
\* attempt.
B_ClickIntercepted ==
    /\ pc = "click"
    /\ IF attempt = 2
       THEN /\ d_clicks' = Append(d_clicks, "intercepted")
            /\ Quit
            /\ Continue
            /\ steps' = steps \o <<"click_failed", "session_close">>
            /\ UNCHANGED <<fixed, harvested, vvars, files, loaded, title,
                           observed, attempt>>
       ELSE /\ d_clicks' = d_clicks \o <<"intercepted", "sleep">>
            /\ attempt' = attempt + 1
            /\ UNCHANGED <<fixed, harvested, vvars, files, loaded, i, title,
                           sessions, locals, observed, pc, steps>>

\* The click script raises another exception: no clause of the click loop
\* matches, the loop handler continues.
B_ClickRaises ==
    /\ pc = "click"
    /\ d_clicks' = Append(d_clicks, "raised")
    /\ Quit
    /\ Continue
    /\ steps' = steps \o <<"click_failed", "session_close">>
    /\ UNCHANGED <<fixed, harvested, vvars, files, loaded, title, observed,
                   attempt>>

\* find_and_click_video_option(driver) returns (True, False).
B_Select ==
    /\ pc = "select"
    /\ is_netu' = FALSE
    /\ pc' = "resolve"
    /\ attempt' = 0
    /\ d_clicks' = <<>>
    /\ steps' = Append(steps, "option_selection")
    /\ UNCHANGED <<fixed, harvested, vvars, files, loaded, i, title, sessions,
                   movie_details, final_url, video_links, b_j, working_link,
                   roku_xml, observed>>

\* Variant of B_SelectFails that goes on to the resolver.
B_SelectFailsGoesOn ==
    /\ pc = "select"
    /\ pc' = "resolve"
    /\ steps' = Append(steps, "no_option")
    /\ UNCHANGED <<fixed, harvested, click_loop, vvars, files, loaded, i,
                   title, sessions, locals, observed>>

\* find_and_click_video_option(driver) returns (False, False): continue.
B_SelectFails ==
    /\ pc = "select"
    /\ QuitAndContinue(<<"no_option">>)
    /\ UNCHANGED vvars

\* check_and_handle_iframe(driver): a URL or None; it raises nothing.
B_Resolve ==
    /\ pc = "resolve"
    /\ final_url' \in {None, <<"redirect-url">>}
    /\ pc' = "harvest"
    /\ steps' = steps \o <<"redirect_resolution">>
    /\ UNCHANGED <<fixed, harvested, click_loop, vvars, files, loaded, i,
                   title, sessions, movie_details, is_netu, video_links, b_j,
                   working_link, roku_xml, observed>>

\* Variant of B_Harvest that leaves the browser running after an empty
\* harvest.
B_HarvestEmptyLeak ==
    /\ pc = "harvest"
    /\ harvested' = <<[target |-> i, redirect |-> final_url # None,
                       flag |-> is_netu,
                       special |-> HarvestMode(final_url, is_netu)]>>
    /\ \E links \in HarvestResults(HarvestMode(final_url, is_netu)) :
          IF links = <<>>
          THEN /\ Continue
               /\ steps' = steps \o <<"empty_harvest", "session_close">>
               /\ UNCHANGED <<fixed, click_loop, files, loaded, title,
                              observed, sessions>>
          ELSE /\ video_links' = links
               /\ b_j' = 1
               /\ final_url' = None
               /\ pc' = "verify"
               /\ steps' = steps \o <<"resource_harvest">>
               /\ UNCHANGED <<fixed, click_loop, files, loaded, i, title,
                              sessions, movie_details, is_netu, working_link,
                              roku_xml, observed>>
    /\ UNCHANGED vvars

\* find_m3u8_links: normal mode after a redirect, else the mode is_netu asks.
\* final_url is not read after this test; the model drops its value here.
B_Harvest ==
    /\ pc = "harvest"
    /\ harvested' = <<[target |-> i, redirect |-> final_url # None,
                       flag |-> is_netu,
                       special |-> HarvestMode(final_url, is_netu)]>>
    /\ \E links \in HarvestResults(HarvestMode(final_url, is_netu)) :
          IF links = <<>>
          THEN /\ Quit
               /\ Continue
               /\ steps' = steps \o <<"empty_harvest", "session_close">>
               /\ UNCHANGED <<fixed, click_loop, files, loaded, title,
                              observed>>
          ELSE /\ video_links' = links
               /\ b_j' = 1
               /\ final_url' = None
               /\ pc' = "verify"
               /\ steps' = steps \o <<"resource_harvest">>
               /\ UNCHANGED <<fixed, click_loop, files, loaded, i, title,
                              sessions, movie_details, is_netu, working_link,
                              roku_xml, observed>>
    /\ UNCHANGED vvars

\* driver.get_log raises inside find_m3u8_links.
B_HarvestRaises ==
    /\ pc = "harvest"
    /\ harvested' = <<[target |-> i, redirect |-> final_url # None,
                       flag |-> is_netu,
                       special |-> HarvestMode(final_url, is_netu)]>>
    /\ Quit
    /\ Continue
    /\ steps' = Append(steps, "session_close")
    /\ UNCHANGED <<fixed, click_loop, files, loaded, title, observed>>
    /\ UNCHANGED vvars

\* try_play_in_vlc has returned to the orchestrator: its locals are gone,
\* and so are the Popen objects of processes that no longer run.
VerifierReturns ==
    /\ vpc' = "idle"
    /\ procs' = SelectSeq(procs, LAMBDA p : p.state = "running")
    /\ video_links_arg' = <<>>
    /\ filtered_links' = <<>>
    /\ v_i' = 0
    /\ v_ret' = "none"
    /\ looked_up' = 0
    /\ UNCHANGED <<auto_test, prompts, response>>

\* try_play_in_vlc([link], auto_test=True) for the link at b_j.
B_CallVerifier ==
    /\ pc = "verify"
    /\ vpc = "idle"
    /\ video_links_arg' = <<video_links[b_j]>>
    /\ auto_test' = TRUE
    /\ vpc' = "call"
    /\ pc' = "verify_wait"
    /\ harvested' = <<>>
    /\ UNCHANGED <<fixed, click_loop, steps, procs, filtered_links, v_i, v_ret,
                   looked_up, prompts, response, files, loaded, i, title,
                   sessions, locals, observed>>

\* It returned True: working_link = link; break.
B_LinkVerified ==
    /\ pc = "verify_wait"
    /\ vpc = "returned"
    /\ v_ret = "True"
    /\ working_link' = video_links[b_j]
    /\ verified' = verified \cup {<<i, video_links[b_j]>>}
    /\ VerifierReturns
    /\ pc' = "format"
    /\ steps' = steps \o <<"verification">>
    /\ UNCHANGED <<fixed, harvested, click_loop, files, loaded, i, title,
                   sessions, movie_details, is_netu, final_url, video_links,
                   b_j, roku_xml, opened_for, writes, succeeded>>

\* It returned False: the next link, or `continue` with no working link.
B_LinkRejected ==
    /\ pc = "verify_wait"
    /\ vpc = "returned"
    /\ v_ret = "False"
    /\ VerifierReturns
    /\ IF b_j < Len(video_links)
       THEN /\ b_j' = b_j + 1
            /\ pc' = "verify"
            /\ steps' = steps \o <<"rejected">>
            /\ UNCHANGED <<fixed, harvested, click_loop, files, loaded, i,
                           title, sessions, movie_details, is_netu, final_url,
                           video_links, working_link, roku_xml, observed>>
       ELSE QuitAndContinue(<<"rejected">>)

\* format_roku_xml(movie_details, [working_link]) tests its link again.
B_CallFormat ==
    /\ pc = "format"
    /\ vpc = "idle"
    /\ video_links_arg' = <<working_link>>
    /\ auto_test' = TRUE
    /\ vpc' = "call"
    /\ pc' = "format_wait"
    /\ UNCHANGED <<fixed, harvested, click_loop, steps, procs, filtered_links,
                   v_i, v_ret, looked_up, prompts, response, files, loaded, i,
                   title, sessions, locals, observed>>

\* The second test passed: format_roku_xml returns the item text.
B_Formatted ==
    /\ pc = "format_wait"
    /\ vpc = "returned"
    /\ v_ret = "True"
    /\ roku_xml' = Item(movie_details.title, video_links_arg[1],
                        movie_details.desc)
    /\ VerifierReturns
    /\ pc' = "write_manifest"
    /\ steps' = steps \o <<"format">>
    /\ UNCHANGED <<fixed, harvested, click_loop, files, loaded, i, title,
                   sessions, movie_details, is_netu, final_url, video_links,
                   b_j, working_link, observed>>

\* The second test failed: format_roku_xml returns None, nothing is written.
B_FormatFailed ==
    /\ pc = "format_wait"
    /\ vpc = "returned"
    /\ v_ret = "False"
    /\ VerifierReturns
    /\ QuitAndContinue(<<"format_rejected">>)

\* open('RokuChannelList.xml', 'w'): the file exists and is empty from here
\* until the write has gone through.
B_OpenManifest ==
    /\ pc = "write_manifest"
    /\ manifest' = [exists |-> TRUE, text |-> <<>>]
    /\ pc' = "writing_manifest"
    /\ UNCHANGED <<fixed, harvested, click_loop, steps, vvars, history, loaded,
                   i, title, sessions, locals, observed>>

\* The write to the opened file raises (OSError, a full disk): the file
\* stays as the open left it, and the loop handler continues.
B_WriteManifestRaises ==
    /\ pc = "writing_manifest"
    /\ QuitAndContinue(<<>>)
    /\ UNCHANGED vvars

\* Variant of B_WriteManifest that does not extend `content`.
B_WriteManifestStale ==
    /\ pc = "writing_manifest"
    /\ manifest' = [exists |-> TRUE,
                    text |-> content \o <<NL, roku_xml, NL, CloseTag>>]
    /\ writes' = Append(writes, [target |-> i, file |-> "manifest",
                                 link |-> roku_xml.url])
    /\ pc' = "write_history"
    /\ steps' = steps \o <<"manifest_write">>
    /\ UNCHANGED <<fixed, harvested, click_loop, vvars, history, loaded, i,
                   title, sessions, locals, opened_for, verified, succeeded>>

\* The manifest is written from `content`, then `content` is extended.
B_WriteManifest ==
    /\ pc = "writing_manifest"
    /\ manifest' = [exists |-> TRUE,
                    text |-> content \o <<NL, roku_xml, NL, CloseTag>>]
    /\ content' = content \o <<NL, roku_xml>>
    /\ writes' = Append(writes, [target |-> i, file |-> "manifest",
                                 link |-> roku_xml.url])
    /\ pc' = "write_history"
    /\ steps' = steps \o <<"manifest_write">>
    /\ UNCHANGED <<fixed, harvested, click_loop, vvars, history,
                   processed_movies, i, title, sessions, locals, opened_for,
                   verified, succeeded>>

\* Variant of B_AppendHistory that records the first harvested link.
B_AppendHistoryFirstLink ==
    /\ pc = "write_history"
    /\ history' = [exists |-> TRUE,
                   lines |-> Append(history.lines, <<title, video_links[1]>>)]
    /\ writes' = Append(writes, [target |-> i, file |-> "history",
                                 link |-> video_links[1]])
    /\ succeeded' = Append(succeeded, [target |-> i, title |-> title,
                                       link |-> video_links[1]])
    /\ pc' = "quit"
    /\ steps' = steps \o <<"history_append">>
    /\ UNCHANGED <<fixed, harvested, click_loop, vvars, manifest, loaded, i,
                   title, sessions, locals, opened_for, verified>>

\* "{title} | {working_link}" is appended to MainHistory.txt.
B_AppendHistory ==
    /\ pc = "write_history"
    /\ history' = [exists |-> TRUE,
                   lines |-> Append(history.lines, <<title, working_link>>)]
    /\ writes' = Append(writes, [target |-> i, file |-> "history",
                                 link |-> working_link])
    /\ succeeded' = Append(succeeded, [target |-> i, title |-> title,
                                       link |-> working_link])
    /\ pc' = "quit"
    /\ steps' = steps \o <<"history_append">>
    /\ UNCHANGED <<fixed, harvested, click_loop, vvars, manifest, loaded, i,
                   title, sessions, locals, opened_for, verified>>

\* Opening or appending to MainHistory.txt raises: the loop handler
\* continues, with the manifest entry of this target already on disk.
B_AppendHistoryRaises ==
    /\ pc = "write_history"
    /\ QuitAndContinue(<<>>)
    /\ UNCHANGED vvars

\* End of the try block: finally driver.quit(), then the next movie.
B_Quit ==
    /\ pc = "quit"
    /\ QuitAndContinue(<<>>)
    /\ UNCHANGED vvars

-----------------------------------------------------------------------------
(* Specifications *)

VerifierIdle ==
    /\ procs = <<>>
    /\ vpc = "idle"
    /\ video_links_arg = <<>>
    /\ auto_test = TRUE
    /\ filtered_links = <<>>
    /\ v_i = 0
    /\ v_ret = "none"
    /\ looked_up = 0
    /\ prompts = 0
    /\ response = Unbound

\* A batch run (-rokuall) over any catalog, history and manifest.
InitBatch ==
    /\ VerifierIdle
    /\ OthersIdle("none")
    /\ installed = {VlcPaths[1]}
    /\ movies \in SeqsUpTo(CatalogLines, MaxMovies)
    /\ \E disk \in InitialDisks :
          /\ history = disk.history
          /\ manifest = disk.manifest
    /\ history0 = history
    /\ manifest0 = manifest
    /\ pc = "start"
    /\ processed_movies = {}
    /\ content = <<>>
    /\ i = 0
    /\ title = Unbound
    /\ sessions = {}
    /\ NoTarget
    /\ opened_for = {}
    /\ verified = {}
    /\ writes = <<>>
    /\ succeeded = <<>>
    /\ attempt = 0
    /\ d_clicks = <<>>
    /\ steps = <<>>
    /\ harvested = <<>>

NextBatch ==
    \/ B_Load
    \/ B_Done
    \/ B_BadLine
    \/ B_Skip
    \/ B_Begin
    \/ B_StartChrome
    \/ B_StartChromeRaises
    \/ B_Configure
    \/ B_ConfigureRaises
    \/ B_Page
    \/ B_PageNoDetails
    \/ B_PageRaises
    \/ B_DropdownWait
    \/ B_DropdownWaitRaises
    \/ B_Click
    \/ B_ClickIntercepted
    \/ B_ClickRaises
    \/ B_Select
    \/ B_SelectFails
    \/ B_Resolve
    \/ B_Harvest
    \/ B_HarvestRaises
    \/ B_CallVerifier
    \/ B_LinkVerified
    \/ B_LinkRejected
    \/ B_CallFormat
    \/ B_Formatted
    \/ B_FormatFailed
    \/ B_OpenManifest
    \/ B_WriteManifest
    \/ B_WriteManifestRaises
    \/ B_AppendHistory
    \/ B_AppendHistoryRaises
    \/ B_Quit
    \/ VerifierAuto

SpecBatch == InitBatch /\ [][NextBatch]_vars

\* The default specification is the batch run.
Spec == SpecBatch


-----------------------------------------------------------------------------
(* find_and_click_video_option *)

\* The keys of hd_options and of cam_options, in dictionary order. An option
\* of the model is named by its flag.
HdOptions == <<"vidhide_hd", "filemoon_hd", "voesx_hd">>
CamOptions == <<"vidhide_cam", "filemoon_cam", "voesx_cam">>

FlagNames ==
    {HdOptions[k] : k \in DOMAIN HdOptions}
        \cup {CamOptions[k] : k \in DOMAIN CamOptions}

\* The dictionaries main() can pass: none (the default, {}), or one with the
\* six keys; `on` is the set of keys whose value is True.
SourceFlags ==
    {[given |-> FALSE, on |-> {}]}
        \cup {[given |-> TRUE, on |-> on] : on \in SUBSET FlagNames}

\* Variant of DefaultOptions that tries the CAM options first.
CamFirstOptions == CamOptions \o HdOptions

\* options_to_try when no flag is set: every HD option, then every CAM one.
DefaultOptions == HdOptions \o CamOptions

\* Variant of FlaggedOptions that tries every HD option whatever the flags.
EveryHdThenFlaggedCam(flags) ==
    HdOptions \o SelectSeq(CamOptions, LAMBDA f : f \in flags.on)

\* options_to_try when a flag is set: the HD options whose flag is set
\* (source_flags.get(flag)), then the CAM options whose flag is set.
FlaggedOptions(flags) ==
    SelectSeq(HdOptions, LAMBDA f : f \in flags.on)
        \o SelectSeq(CamOptions, LAMBDA f : f \in flags.on)

\* Variant of SReturn that reports the special provider with every success.
SReturnSpecial(success) ==
    /\ s_pc' = "returned"
    /\ s_ret' = <<success, success>>
    /\ s_k' = s_k

\* `return success, False`: the three return statements of the function.
SReturn(success) ==
    /\ s_pc' = "returned"
    /\ s_ret' = <<success, FALSE>>
    /\ s_k' = s_k

\* `continue` in the loop over options_to_try; after the last option the
\* function falls through to `return False, False`.
SContinue ==
    IF s_k < Len(options_to_try)
    THEN /\ s_k' = s_k + 1
         /\ s_pc' = "look"
         /\ s_ret' = s_ret
    ELSE SReturn(FALSE)

\* Function entry up to the loop: has_flags, which is any(source_flags
\* .values()), and options_to_try.
S_Enter ==
    /\ s_pc = "call"
    /\ options_to_try' = IF source_flags.on # {}
                         THEN FlaggedOptions(source_flags)
                         ELSE DefaultOptions
    /\ IF source_flags.on # {} /\ options_to_try' = <<>>
       THEN SReturn(FALSE)
       ELSE /\ s_k' = 1
            /\ s_pc' = "look"
            /\ s_ret' = s_ret
    /\ UNCHANGED <<source_flags, s_page, s_looked, s_clicked, s_settled>>
    /\ UNCHANGED <<program, pvars, hvars, rvars, wvars>>

\* wait_for_element returns the option's element.
S_Found ==
    /\ s_pc = "look"
    /\ options_to_try[s_k] \in s_page
    /\ s_looked' = Append(s_looked, options_to_try[s_k])
    /\ s_pc' = "click"
    /\ UNCHANGED <<source_flags, s_page, options_to_try, s_k, s_ret,
                   s_clicked, s_settled>>
    /\ UNCHANGED <<program, pvars, hvars, rvars, wvars>>

\* wait_for_element raises TimeoutException after 20 s: except, continue.
S_NotFound ==
    /\ s_pc = "look"
    /\ options_to_try[s_k] \notin s_page
    /\ s_looked' = Append(s_looked, options_to_try[s_k])
    /\ SContinue
    /\ UNCHANGED <<source_flags, s_page, options_to_try, s_clicked,
                   s_settled>>
    /\ UNCHANGED <<program, pvars, hvars, rvars, wvars>>

\* driver.execute_script("arguments[0].click();", video_option) returns.
S_Click ==
    /\ s_pc = "click"
    /\ s_clicked' = Append(s_clicked, options_to_try[s_k])
    /\ s_pc' = "settle"
    /\ UNCHANGED <<source_flags, s_page, options_to_try, s_k, s_ret,
                   s_looked, s_settled>>
    /\ UNCHANGED <<program, pvars, hvars, rvars, wvars>>

\* The click script raises (the element went stale): except, continue.
S_ClickRaises ==
    /\ s_pc = "click"
    /\ SContinue
    /\ UNCHANGED <<source_flags, s_page, options_to_try, s_looked,
                   s_clicked, s_settled>>
    /\ UNCHANGED <<program, pvars, hvars, rvars, wvars>>

\* time.sleep(8) is over: return True, False.
S_Settled ==
    /\ s_pc = "settle"
    /\ s_settled' = TRUE
    /\ SReturn(TRUE)
    /\ UNCHANGED <<source_flags, s_page, options_to_try, s_looked,
                   s_clicked>>
    /\ UNCHANGED <<program, pvars, hvars, rvars, wvars>>

\* One call of find_and_click_video_option, with any dictionary main() can
\* build and any set of options present on the page.
InitSelector ==
    /\ BatchIdle
    /\ VerifierIdle
    /\ installed = {}
    /\ OthersIdle("selector")
    /\ s_pc = "call"
    /\ source_flags \in SourceFlags
    /\ s_page \in SUBSET FlagNames
    /\ options_to_try = <<>>
    /\ s_k = 0
    /\ s_ret = NotReturned
    /\ s_looked = <<>>
    /\ s_clicked = <<>>
    /\ s_settled = FALSE

NextSelector ==
    \/ S_Enter
    \/ S_Found
    \/ S_NotFound
    \/ S_Click
    \/ S_ClickRaises
    \/ S_Settled

SpecSelector == InitSelector /\ [][NextSelector]_vars


-----------------------------------------------------------------------------
(* get_best_m3u8_link *)

\* Candidate links for the prioritizer: with and without the words the
\* function looks for, in lower and in upper case.
RankedLinks ==
    { <<"a/", "master", ".m3u8">>,
      <<"b/", "index", ".m3u8">>,
      <<"c/", "index", "_", "master", ".m3u8">>,
      <<"d/", "INDEX", ".m3u8">>,
      <<"e/", "MASTER", ".m3u8">>,
      <<"f/", "plain", ".m3u8">> }

\* Variant of PriorityLinks that does not exclude the master links.
IndexLinks(links) ==
    SelectSeq(links, LAMBDA link : Contains(Lower(link), <<"index">>))

\* priority_links
PriorityLinks(links) ==
    SelectSeq(links, LAMBDA link :
        /\ Contains(Lower(link), <<"index">>)
        /\ ~Contains(Lower(link), <<"master">>))

\* non_master_links
NonMasterLinks(links) ==
    SelectSeq(links, LAMBDA link : ~Contains(Lower(link), <<"master">>))

get_best_m3u8_link(links) ==
    IF links = <<>> THEN None
    ELSE IF PriorityLinks(links) # <<>> THEN PriorityLinks(links)[1]
    ELSE IF NonMasterLinks(links) # <<>> THEN NonMasterLinks(links)[1]
    ELSE links[1]

\* The call, from entry to return.
P_Call ==
    /\ p_pc = "call"
    /\ p_ret' = get_best_m3u8_link(p_links)
    /\ p_pc' = "returned"
    /\ UNCHANGED p_links
    /\ UNCHANGED <<program, svars, hvars, rvars, wvars>>

\* One call of get_best_m3u8_link on any sequence of candidates.
InitPrioritizer ==
    /\ BatchIdle
    /\ VerifierIdle
    /\ installed = {}
    /\ OthersIdle("prioritizer")
    /\ p_pc = "call"
    /\ p_links \in SeqsUpTo(RankedLinks, MaxLinks)
    /\ p_ret = NotReturned

NextPrioritizer == P_Call

SpecPrioritizer == InitPrioritizer /\ [][NextPrioritizer]_vars


-----------------------------------------------------------------------------
(* find_m3u8_links and get_waaw_link *)

\* A key that a log message does not have (reading it raises KeyError).
NoField == <<"<missing>">>

\* The entries a get_log('performance') call of the model can return, after
\* json.loads: the method and the URLs at params.request.url and at
\* params.response.url.
LogEntries ==
    { [method |-> <<"Network.responseReceived">>,
       request |-> NoField, response |-> LinkIndex],
      [method |-> <<"Network.responseReceived">>,
       request |-> NoField, response |-> LinkMaster],
      [method |-> <<"Network.responseReceived">>,
       request |-> NoField, response |-> <<"cdn-a/", "clip", ".mp4">>],
      [method |-> <<"Network.requestWillBeSent">>,
       request |-> <<"cdn-c/", "late", ".m3u8">>, response |-> NoField] }

\* Variant of IsStreamUrl that takes every URL.
IsAnyUrl(url) == TRUE

\* '.m3u8' in url
IsStreamUrl(url) == Contains(url, <<".m3u8">>)

\* The body of one `for entry in logs` iteration: the URLs it adds. An entry
\* without params.response raises inside the try and is skipped.
ScanEntry(entry) ==
    IF Contains(entry.method, <<"Network.responseReceived">>)
    THEN IF entry.response = NoField
         THEN {}
         ELSE IF IsStreamUrl(entry.response) THEN {entry.response} ELSE {}
    ELSE {}

\* One scan loop over the entries a get_log call returned.
ScanLog(entries) == UNION {ScanEntry(entry) : entry \in entries}

\* The src attributes iframes of the model have; the empty string for an
\* iframe without src.
NoSrc == <<>>
FrameSrcs ==
    { <<"https://", "waaw.to", "/e/1">>,
      <<"https://", "waaw.to", "/e/2">>,
      <<"https://", "player.example", "/embed">>,
      NoSrc }

\* `src and 'waaw.to' in src`
IsWaawSrc(src) == src # NoSrc /\ Contains(src, <<"waaw.to">>)

\* Variant of FirstWaaw that takes the last matching iframe.
LastWaaw(frames) ==
    IF \E k \in DOMAIN frames : IsWaawSrc(frames[k])
    THEN frames[CHOOSE k \in DOMAIN frames :
                    /\ IsWaawSrc(frames[k])
                    /\ \A j \in DOMAIN frames : j > k => ~IsWaawSrc(frames[j])]
    ELSE None

\* The loop of get_waaw_link when nothing raises: the src of the first
\* iframe that matches, or None.
FirstWaaw(frames) ==
    IF \E k \in DOMAIN frames : IsWaawSrc(frames[k])
    THEN frames[CHOOSE k \in DOMAIN frames :
                    /\ IsWaawSrc(frames[k])
                    /\ \A j \in 1..(k - 1) : ~IsWaawSrc(frames[j])]
    ELSE None

\* A get_log call returned `entries` in the given phase.
Recorded(phase, entries) ==
    /\ h_seen' = h_seen \cup entries
    /\ h_again' = h_again \cup (h_seen \cap entries)
    /\ h_scans' = Append(h_scans, <<phase, h_context>>)

\* Function entry: the is_netu test.
H_Enter ==
    /\ h_pc = "call"
    /\ h_pc' = IF h_is_netu THEN "waaw" ELSE "top"
    /\ UNCHANGED <<h_is_netu, h_frames, h_f, h_context, m3u8_links, h_ret,
                   h_seen, h_again, h_scans, h_switches, h_failed,
                   h_late>>
    /\ UNCHANGED <<program, svars, pvars, rvars, wvars>>

\* is_netu: get_waaw_link returns; [waaw_link] or [].
H_Waaw ==
    /\ h_pc = "waaw"
    /\ h_ret' = IF FirstWaaw(h_frames) = None
                THEN <<>>
                ELSE <<FirstWaaw(h_frames)>>
    /\ h_pc' = "returned"
    /\ UNCHANGED <<h_is_netu, h_frames, h_f, h_context, m3u8_links, h_seen,
                   h_again, h_scans, h_switches, h_failed,
                   h_late>>
    /\ UNCHANGED <<program, svars, pvars, rvars, wvars>>

\* is_netu: find_elements or get_attribute raises inside get_waaw_link; its
\* handler returns None, so the result is [].
H_WaawRaises ==
    /\ h_pc = "waaw"
    /\ h_failed' = TRUE
    /\ h_ret' = <<>>
    /\ h_pc' = "returned"
    /\ UNCHANGED <<h_is_netu, h_frames, h_f, h_context, m3u8_links, h_seen,
                   h_again, h_scans, h_switches,
                   h_late>>
    /\ UNCHANGED <<program, svars, pvars, rvars, wvars>>

\* The initial get_log and scan, then find_elements for the iframes.
H_TopScan ==
    /\ h_pc = "top"
    /\ \E entries \in SUBSET LogEntries :
          /\ Recorded("top", entries)
          /\ m3u8_links' = m3u8_links \cup ScanLog(entries)
    /\ h_f' = 1
    /\ h_pc' = "frames"
    /\ UNCHANGED <<h_is_netu, h_frames, h_context, h_ret, h_switches,
                   h_failed,
                   h_late>>
    /\ UNCHANGED <<program, svars, pvars, rvars, wvars>>

\* get_log (76, 116) or find_elements (89) raises outside any try: the
\* exception leaves find_m3u8_links.
H_Raises ==
    /\ h_pc \in {"top", "final"}
    /\ h_pc' = "raised"
    /\ UNCHANGED <<h_is_netu, h_frames, h_f, h_context, m3u8_links, h_ret,
                   h_seen, h_again, h_scans, h_switches, h_failed,
                   h_late>>
    /\ UNCHANGED <<program, svars, pvars, rvars, wvars>>


\* The iframe loop: switch_to.frame(iframe) succeeds. The elements of
\* `iframes` belong to the top-level document, so the driver can resolve
\* them only while it is in the top-level context.
H_SwitchIn ==
    /\ h_pc = "frames"
    /\ h_f <= Len(h_frames)
    /\ h_context = 0
    /\ h_context' = h_f
    /\ h_switches' = Append(h_switches, h_f)
    /\ h_pc' = "in_frame"
    /\ UNCHANGED <<h_is_netu, h_frames, h_f, m3u8_links, h_ret, h_seen,
                   h_again, h_scans, h_failed,
                   h_late>>
    /\ UNCHANGED <<program, svars, pvars, rvars, wvars>>

\* The iframe loop: switch_to.frame(iframe) raises (the frame is gone, or
\* the driver is not in the context the element belongs to): except,
\* continue.
H_SwitchRaises ==
    /\ h_pc = "frames"
    /\ h_f <= Len(h_frames)
    /\ h_switches' = Append(h_switches, h_f)
    /\ h_f' = h_f + 1
    /\ UNCHANGED <<h_pc, h_is_netu, h_frames, h_context, m3u8_links, h_ret,
                   h_seen, h_again, h_scans, h_failed,
                   h_late>>
    /\ UNCHANGED <<program, svars, pvars, rvars, wvars>>

\* Inside the frame, after sleep(2): get_log, the scan, then
\* switch_to.default_content().
H_FrameScan ==
    /\ h_pc = "in_frame"
    /\ \E entries \in SUBSET LogEntries :
          /\ Recorded("frame", entries)
          /\ m3u8_links' = m3u8_links \cup ScanLog(entries)
    /\ h_context' = 0
    /\ h_f' = h_f + 1
    /\ h_pc' = "frames"
    /\ UNCHANGED <<h_is_netu, h_frames, h_ret, h_switches, h_failed,
                   h_late>>
    /\ UNCHANGED <<program, svars, pvars, rvars, wvars>>

\* Inside the frame: get_log raises. The handler of the iteration is a bare
\* `continue`; switch_to.default_content() is the last statement of the try
\* block and is not reached.
H_FrameLogRaises ==
    /\ h_pc = "in_frame"
    /\ h_f' = h_f + 1
    /\ h_pc' = "frames"
    /\ UNCHANGED <<h_is_netu, h_frames, h_context, m3u8_links, h_ret, h_seen,
                   h_again, h_scans, h_switches, h_failed,
                   h_late>>
    /\ UNCHANGED <<program, svars, pvars, rvars, wvars>>

\* The iframe loop is over: sleep(5).
H_FramesDone ==
    /\ h_pc = "frames"
    /\ h_f > Len(h_frames)
    /\ h_pc' = "final"
    /\ UNCHANGED <<h_is_netu, h_frames, h_f, h_context, m3u8_links, h_ret,
                   h_seen, h_again, h_scans, h_switches, h_failed,
                   h_late>>
    /\ UNCHANGED <<program, svars, pvars, rvars, wvars>>

\* Variant of H_FinalScan that reads the log and adds nothing.
H_FinalScanUnused ==
    /\ h_pc = "final"
    /\ \E entries \in SUBSET LogEntries :
          /\ Recorded("final", entries)
          /\ h_late' = {}
    /\ h_ret' \in {q \in NoDupSeqs(m3u8_links) :
                    Len(q) = Cardinality(m3u8_links)}
    /\ h_pc' = "returned"
    /\ UNCHANGED <<h_is_netu, h_frames, h_f, h_context, m3u8_links,
                   h_switches, h_failed>>
    /\ UNCHANGED <<program, svars, pvars, rvars, wvars>>

\* The final get_log and scan; return list(m3u8_links).
H_FinalScan ==
    /\ h_pc = "final"
    /\ \E entries \in SUBSET LogEntries :
          /\ Recorded("final", entries)
          /\ m3u8_links' = m3u8_links \cup ScanLog(entries)
          /\ h_late' = ScanLog(entries) \ m3u8_links
    /\ h_ret' \in {q \in NoDupSeqs(m3u8_links') :
                    Len(q) = Cardinality(m3u8_links')}
    /\ h_pc' = "returned"
    /\ UNCHANGED <<h_is_netu, h_frames, h_f, h_context, h_switches, h_failed>>
    /\ UNCHANGED <<program, svars, pvars, rvars, wvars>>

\* One call of find_m3u8_links, in either mode, on a page with any iframes.
InitHarvester ==
    /\ BatchIdle
    /\ VerifierIdle
    /\ installed = {}
    /\ OthersIdle("harvester")
    /\ h_pc = "call"
    /\ h_is_netu \in BOOLEAN
    /\ h_frames \in SeqsUpTo(FrameSrcs, MaxFrames)
    /\ h_f = 0
    /\ h_context = 0
    /\ m3u8_links = {}
    /\ h_ret = <<>>
    /\ h_seen = {}
    /\ h_again = {}
    /\ h_scans = <<>>
    /\ h_switches = <<>>
    /\ h_failed = FALSE
    /\ h_late = {}

NextHarvester ==
    \/ H_Enter
    \/ H_Waaw
    \/ H_WaawRaises
    \/ H_TopScan
    \/ H_Raises
    \/ H_SwitchIn
    \/ H_SwitchRaises
    \/ H_FrameScan
    \/ H_FrameLogRaises
    \/ H_FramesDone
    \/ H_FinalScan

SpecHarvester == InitHarvester /\ [][NextHarvester]_vars


-----------------------------------------------------------------------------
(* check_and_handle_iframe *)

\* max_wait: the seconds a polling loop waits for the redirect.
max_wait == 30

\* The src attributes iframes of the model have.
ResolverSrcs ==
    { <<"https://", "voe.sx", "/e/abc">>,
      <<"https://", "player.cuevana3.eu/player.php", "?h=abc">>,
      <<"https://", "ads.example", "/banner">>,
      NoSrc }

\* The URL the browser is at after a redirect.
UrlRedirected == <<"https://", "stream.example", "/v/abc">>

\* `src` is truthy and 'voe.sx' in src
IsVoe(src) == src # NoSrc /\ Contains(src, <<"voe.sx">>)

\* `src` is truthy, not a voe.sx one, and has 'player.cuevana3.eu/player.php'
IsPlayer(src) ==
    /\ src # NoSrc
    /\ ~Contains(src, <<"voe.sx">>)
    /\ Contains(src, <<"player.cuevana3.eu/player.php">>)

\* A return statement of check_and_handle_iframe.
RReturn(value, how) ==
    /\ r_pc' = "returned"
    /\ r_ret' = value
    /\ r_end' = how

\* find_elements returns the iframes of the page.
R_Enter ==
    /\ r_pc = "call"
    /\ r_k' = 1
    /\ r_pc' = "scan"
    /\ UNCHANGED <<r_frames, r_stale, r_t, r_elapsed, r_ret, r_read, r_navs,
                   r_clicks, r_waited, r_polls, r_failed, r_end>>
    /\ UNCHANGED <<program, svars, pvars, hvars, wvars>>

\* The loop over iframes is exhausted: "No player iframes found".
R_NoFrames ==
    /\ r_pc = "scan"
    /\ r_k > Len(r_frames)
    /\ RReturn(None, "no_frame")
    /\ UNCHANGED <<r_frames, r_k, r_stale, r_t, r_elapsed, r_read, r_navs,
                   r_clicks, r_waited, r_polls, r_failed>>
    /\ UNCHANGED <<program, svars, pvars, hvars, wvars>>

\* find_elements raises, or iframe.get_attribute('src') raises: the outer
\* handler returns None. An element found before the driver navigated away
\* is stale, and reading it always raises.
R_ReadRaises ==
    /\ r_pc = "call" \/ (r_pc = "scan" /\ r_k <= Len(r_frames))
    /\ RReturn(None, "error")
    /\ UNCHANGED <<r_frames, r_k, r_stale, r_t, r_elapsed, r_read, r_navs,
                   r_clicks, r_waited, r_polls, r_failed>>
    /\ UNCHANGED <<program, svars, pvars, hvars, wvars>>

\* An iframe without src or with a src of neither kind: next iframe.
R_SkipFrame ==
    /\ r_pc = "scan"
    /\ r_k <= Len(r_frames)
    /\ ~r_stale
    /\ ~IsVoe(r_frames[r_k])
    /\ ~IsPlayer(r_frames[r_k])
    /\ r_read' = Append(r_read, r_k)
    /\ r_k' = r_k + 1
    /\ UNCHANGED <<r_pc, r_frames, r_stale, r_t, r_elapsed, r_ret, r_navs,
                   r_clicks, r_waited, r_polls, r_failed, r_end>>
    /\ UNCHANGED <<program, svars, pvars, hvars, wvars>>

\* A voe.sx or player iframe: driver.get(src) returns, sleep(3).
R_Navigate ==
    /\ r_pc = "scan"
    /\ r_k <= Len(r_frames)
    /\ ~r_stale
    /\ IsVoe(r_frames[r_k]) \/ IsPlayer(r_frames[r_k])
    /\ r_read' = Append(r_read, r_k)
    /\ r_navs' = Append(r_navs, r_k)
    /\ r_stale' = TRUE
    /\ r_pc' = IF IsVoe(r_frames[r_k]) THEN "voe" ELSE "play"
    /\ UNCHANGED <<r_frames, r_k, r_t, r_elapsed, r_ret, r_clicks, r_waited,
                   r_polls, r_failed, r_end>>
    /\ UNCHANGED <<program, svars, pvars, hvars, wvars>>

\* A voe.sx or player iframe: driver.get(src) raises; the outer handler
\* returns None.
R_NavigateRaises ==
    /\ r_pc = "scan"
    /\ r_k <= Len(r_frames)
    /\ ~r_stale
    /\ IsVoe(r_frames[r_k]) \/ IsPlayer(r_frames[r_k])
    /\ r_read' = Append(r_read, r_k)
    /\ r_navs' = Append(r_navs, r_k)
    /\ r_stale' = TRUE
    /\ RReturn(None, "error")
    /\ UNCHANGED <<r_frames, r_k, r_t, r_elapsed, r_clicks, r_waited,
                   r_polls, r_failed>>
    /\ UNCHANGED <<program, svars, pvars, hvars, wvars>>


\* Variant of R_VoeClicked that returns a URL only if it has changed.
R_VoeClickedChanged ==
    /\ r_pc = "voe"
    /\ \E current_url \in {r_frames[r_k], UrlRedirected} :
          RReturn(IF current_url = r_frames[r_k] THEN None ELSE current_url,
                  "logo")
    /\ UNCHANGED <<r_frames, r_k, r_stale, r_t, r_elapsed, r_read, r_navs,
                   r_clicks, r_waited, r_polls, r_failed>>
    /\ UNCHANGED <<program, svars, pvars, hvars, wvars>>

\* voe.sx: the logo appeared and the click script ran; sleep(3), then
\* return driver.current_url, whatever it is.
R_VoeClicked ==
    /\ r_pc = "voe"
    /\ \E current_url \in {r_frames[r_k], UrlRedirected} :
          RReturn(current_url, "logo")
    /\ UNCHANGED <<r_frames, r_k, r_stale, r_t, r_elapsed, r_read, r_navs,
                   r_clicks, r_waited, r_polls, r_failed>>
    /\ UNCHANGED <<program, svars, pvars, hvars, wvars>>

\* Variant of R_VoeFails after which the remaining iframes can be read.
R_VoeFailsRefound ==
    /\ r_pc = "voe"
    /\ r_failed' = TRUE
    /\ r_stale' = FALSE
    /\ r_k' = r_k + 1
    /\ r_pc' = "scan"
    /\ UNCHANGED <<r_frames, r_t, r_elapsed, r_ret, r_read, r_navs,
                   r_clicks, r_waited, r_polls, r_end>>
    /\ UNCHANGED <<program, svars, pvars, hvars, wvars>>

\* voe.sx: the wait for the logo timed out, or the click script or the read
\* of driver.current_url raised; the handler logs and continues with the
\* next iframe of the list.
R_VoeFails ==
    /\ r_pc = "voe"
    /\ r_failed' = TRUE
    /\ r_k' = r_k + 1
    /\ r_pc' = "scan"
    /\ UNCHANGED <<r_frames, r_stale, r_t, r_elapsed, r_ret, r_read, r_navs,
                   r_clicks, r_waited, r_polls, r_end>>
    /\ UNCHANGED <<program, svars, pvars, hvars, wvars>>

\* Player: the wait for the play button timed out. The handler tries the
\* alternative click on play_button, which is unbound: that raises and the
\* inner handler returns None.
R_PlayMissing ==
    /\ r_pc = "play"
    /\ r_failed' = TRUE
    /\ RReturn(None, "failed")
    /\ UNCHANGED <<r_frames, r_k, r_stale, r_t, r_elapsed, r_read, r_navs,
                   r_clicks, r_waited, r_polls>>
    /\ UNCHANGED <<program, svars, pvars, hvars, wvars>>

\* Player: the play button is present.
R_PlayFound ==
    /\ r_pc = "play"
    /\ r_pc' = "click"
    /\ UNCHANGED <<r_frames, r_k, r_stale, r_t, r_elapsed, r_ret, r_read,
                   r_navs, r_clicks, r_waited, r_polls, r_failed, r_end>>
    /\ UNCHANGED <<program, svars, pvars, hvars, wvars>>

\* Player: the click script ran; start_time = time.time().
R_Click ==
    /\ r_pc = "click"
    /\ r_clicks' = Append(r_clicks, "script")
    /\ r_t' = 0
    /\ r_pc' = "poll"
    /\ UNCHANGED <<r_frames, r_k, r_stale, r_elapsed, r_ret, r_read, r_navs,
                   r_waited, r_polls, r_failed, r_end>>
    /\ UNCHANGED <<program, svars, pvars, hvars, wvars>>

\* Player: the click script raised; the handler of the try block runs.
R_ClickRaises ==
    /\ r_pc = "click"
    /\ r_pc' = "alt"
    /\ UNCHANGED <<r_frames, r_k, r_stale, r_t, r_elapsed, r_ret, r_read,
                   r_navs, r_clicks, r_waited, r_polls, r_failed, r_end>>
    /\ UNCHANGED <<program, svars, pvars, hvars, wvars>>

\* The handler: the ActionChains click ran; start_time = time.time().
R_AltClick ==
    /\ r_pc = "alt"
    /\ r_clicks' = Append(r_clicks, "chain")
    /\ r_t' = 0
    /\ r_pc' = "poll_alt"
    /\ UNCHANGED <<r_frames, r_k, r_stale, r_elapsed, r_ret, r_read, r_navs,
                   r_waited, r_polls, r_failed, r_end>>
    /\ UNCHANGED <<program, svars, pvars, hvars, wvars>>

\* The handler: the ActionChains click raised; return None.
R_AltClickRaises ==
    /\ r_pc = "alt"
    /\ r_failed' = TRUE
    /\ RReturn(None, "failed")
    /\ UNCHANGED <<r_frames, r_k, r_stale, r_t, r_elapsed, r_read, r_navs,
                   r_clicks, r_waited, r_polls>>
    /\ UNCHANGED <<program, svars, pvars, hvars, wvars>>

\* Either polling loop, one iteration: current_url is still player_url;
\* elapsed is logged and sleep(1) follows. An iteration takes one second.
R_PollSame ==
    /\ r_pc \in {"poll", "poll_alt"}
    /\ r_t < max_wait
    /\ r_polls' = r_polls + 1
    /\ r_elapsed' = r_t
    /\ r_t' = r_t + 1
    /\ r_waited' = r_waited + 1
    /\ UNCHANGED <<r_pc, r_frames, r_k, r_stale, r_ret, r_read, r_navs,
                   r_clicks, r_failed, r_end>>
    /\ UNCHANGED <<program, svars, pvars, hvars, wvars>>

\* Either polling loop: current_url differs from player_url, the src of the
\* iframe; elapsed is logged and current_url returned.
R_PollChanged ==
    /\ r_pc \in {"poll", "poll_alt"}
    /\ r_t < max_wait
    /\ r_polls' = r_polls + 1
    /\ r_elapsed' = r_t
    /\ UrlRedirected # r_frames[r_k]
    /\ RReturn(UrlRedirected, "redirected")
    /\ UNCHANGED <<r_frames, r_k, r_stale, r_t, r_read, r_navs, r_clicks,
                   r_waited, r_failed>>
    /\ UNCHANGED <<program, svars, pvars, hvars, wvars>>

\* Either polling loop: the while condition fails; return None.
R_PollTimedOut ==
    /\ r_pc \in {"poll", "poll_alt"}
    /\ r_t >= max_wait
    /\ RReturn(None, "timed_out")
    /\ UNCHANGED <<r_frames, r_k, r_stale, r_t, r_elapsed, r_read, r_navs,
                   r_clicks, r_waited, r_polls, r_failed>>
    /\ UNCHANGED <<program, svars, pvars, hvars, wvars>>

\* The first polling loop: reading driver.current_url raises. The loop is
\* inside the try block of the click, so the same handler runs and goes on
\* to the alternative click.
R_PollRaises ==
    /\ r_pc = "poll"
    /\ r_t < max_wait
    /\ r_polls' = r_polls + 1
    /\ r_pc' = "alt"
    /\ UNCHANGED <<r_frames, r_k, r_stale, r_t, r_elapsed, r_ret, r_read,
                   r_navs, r_clicks, r_waited, r_failed, r_end>>
    /\ UNCHANGED <<program, svars, pvars, hvars, wvars>>

\* The polling loop of the handler: reading driver.current_url raises;
\* return None.
R_PollAltRaises ==
    /\ r_pc = "poll_alt"
    /\ r_t < max_wait
    /\ r_polls' = r_polls + 1
    /\ r_failed' = TRUE
    /\ RReturn(None, "failed")
    /\ UNCHANGED <<r_frames, r_k, r_stale, r_t, r_elapsed, r_read, r_navs,
                   r_clicks, r_waited>>
    /\ UNCHANGED <<program, svars, pvars, hvars, wvars>>

\* One call of check_and_handle_iframe on a page with any iframes.
InitResolver ==
    /\ BatchIdle
    /\ VerifierIdle
    /\ installed = {}
    /\ OthersIdle("resolver")
    /\ r_pc = "call"
    /\ r_frames \in SeqsUpTo(ResolverSrcs, MaxFrames)
    /\ r_k = 0
    /\ r_stale = FALSE
    /\ r_t = 0
    /\ r_elapsed = 0
    /\ r_ret = NotReturned
    /\ r_read = <<>>
    /\ r_navs = <<>>
    /\ r_clicks = <<>>
    /\ r_waited = 0
    /\ r_polls = 0
    /\ r_failed = FALSE
    /\ r_end = "none"

NextResolver ==
    \/ R_Enter
    \/ R_NoFrames
    \/ R_ReadRaises
    \/ R_SkipFrame
    \/ R_Navigate
    \/ R_NavigateRaises
    \/ R_VoeClicked
    \/ R_VoeFails
    \/ R_PlayMissing
    \/ R_PlayFound
    \/ R_Click
    \/ R_ClickRaises
    \/ R_AltClick
    \/ R_AltClickRaises
    \/ R_PollSame
    \/ R_PollChanged
    \/ R_PollTimedOut
    \/ R_PollRaises
    \/ R_PollAltRaises

SpecResolver == InitResolver /\ [][NextResolver]_vars

-----------------------------------------------------------------------------
(* retry_on_timeout *)

\* What the decorated function can return, None included.
FuncResults == {"element", "", "None"}

\* Exceptions of func that are not a TimeoutException.
OtherExceptions == {"NoSuchElementException", "ValueError"}

\* wrapper(*args) has been entered: the for loop over range(retries) starts.
W_Enter ==
    /\ w_pc = "call"
    /\ w_attempt' = 0
    /\ w_pc' = "loop"
    /\ UNCHANGED <<program, svars, pvars, hvars, rvars, retries, delay,
                   w_out, w_log, w_slept>>

\* func(*args, **kwargs) returns: wrapper returns that value.
W_Returns ==
    /\ w_pc = "loop"
    /\ w_attempt < retries
    /\ \E value \in FuncResults :
          w_out' = [kind |-> "returned", what |-> value, at |-> w_attempt]
    /\ w_log' = Append(w_log, "returned")
    /\ w_pc' = "done"
    /\ UNCHANGED <<program, svars, pvars, hvars, rvars, retries, delay,
                   w_attempt, w_slept>>

\* func raises TimeoutException before the last attempt: warning,
\* time.sleep(delay), next attempt.
W_Timeout ==
    /\ w_pc = "loop"
    /\ w_attempt < retries
    /\ w_attempt # retries - 1
    /\ w_log' = w_log \o <<"timeout", "sleep">>
    /\ w_slept' = w_slept + delay
    /\ w_attempt' = w_attempt + 1
    /\ UNCHANGED <<program, svars, pvars, hvars, rvars, retries, delay,
                   w_pc, w_out>>

\* Variant of W_TimeoutLast that sleeps before it re-raises.
W_TimeoutLastSleeps ==
    /\ w_pc = "loop"
    /\ w_attempt < retries
    /\ w_attempt = retries - 1
    /\ w_log' = w_log \o <<"timeout", "sleep">>
    /\ w_slept' = w_slept + delay
    /\ w_out' = [kind |-> "raised", what |-> "TimeoutException",
                 at |-> w_attempt]
    /\ w_pc' = "done"
    /\ UNCHANGED <<program, svars, pvars, hvars, rvars, retries, delay,
                   w_attempt>>

\* func raises TimeoutException in the last attempt: `raise` re-raises the
\* exception this call of func raised.
W_TimeoutLast ==
    /\ w_pc = "loop"
    /\ w_attempt < retries
    /\ w_attempt = retries - 1
    /\ w_log' = Append(w_log, "timeout")
    /\ w_out' = [kind |-> "raised", what |-> "TimeoutException",
                 at |-> w_attempt]
    /\ w_pc' = "done"
    /\ UNCHANGED <<program, svars, pvars, hvars, rvars, retries, delay,
                   w_attempt, w_slept>>

\* func raises an exception no except clause matches: it leaves wrapper.
W_Other ==
    /\ w_pc = "loop"
    /\ w_attempt < retries
    /\ \E exc \in OtherExceptions :
          w_out' = [kind |-> "raised", what |-> exc, at |-> w_attempt]
    /\ w_log' = Append(w_log, "other")
    /\ w_pc' = "done"
    /\ UNCHANGED <<program, svars, pvars, hvars, rvars, retries, delay,
                   w_attempt, w_slept>>

\* range(retries) is exhausted: return None. Every attempt of a non-empty
\* range returns, raises or goes on, so this is the case retries <= 0.
W_Exhausted ==
    /\ w_pc = "loop"
    /\ w_attempt >= retries
    /\ w_out' = [kind |-> "returned", what |-> "None", at |-> w_attempt]
    /\ w_pc' = "done"
    /\ UNCHANGED <<program, svars, pvars, hvars, rvars, retries, delay,
                   w_attempt, w_log, w_slept>>

\* One call of a function decorated with retry_on_timeout(retries, delay).
InitRetry ==
    /\ BatchIdle
    /\ VerifierIdle
    /\ installed = {}
    /\ OthersIdle("retry")
    /\ w_pc = "call"
    /\ retries \in 0..MaxRetries
    /\ delay \in 0..2
    /\ w_attempt = 0
    /\ w_out = [kind |-> "none", what |-> "", at |-> 0]
    /\ w_log = <<>>
    /\ w_slept = 0

NextRetry ==
    \/ W_Enter
    \/ W_Returns
    \/ W_Timeout
    \/ W_TimeoutLast
    \/ W_Other
    \/ W_Exhausted

SpecRetry == InitRetry /\ [][NextRetry]_vars

-----------------------------------------------------------------------------
(* main: the dispatch on the command line, around the selector *)

\* What main and the selector leave alone.
m_rest == <<installed, movies, history0, manifest0, vvars, bvars, pvars,
            hvars, rvars, wvars>>

\* A call of find_and_click_video_option on the page of the current target,
\* which shows any set of options.
CallSelector(flags) ==
    /\ s_pc' = "call"
    /\ source_flags' = flags
    /\ s_page' \in SUBSET FlagNames
    /\ options_to_try' = <<>>
    /\ s_k' = 0
    /\ s_ret' = NotReturned
    /\ s_looked' = <<>>
    /\ s_clicked' = <<>>
    /\ s_settled' = FALSE

\* `if args.rokuall: process_all_movies_for_roku(randomize=args.random);
\* return`, which comes before source_flags is built; otherwise main goes on
\* with the URL of its one target.
M_Dispatch ==
    /\ m_pc = "start"
    /\ m_pc' = IF args.rokuall THEN "batch_target" ELSE "single_target"
    /\ UNCHANGED <<args, m_harvest, svars, m_rest>>

\* Variant of M_BatchSelect that hands the flags of the command line to the
\* selector.
M_BatchSelectWithFlags ==
    /\ m_pc = "batch_target"
    /\ CallSelector([given |-> TRUE, on |-> args.flags])
    /\ m_harvest' = <<>>
    /\ m_pc' = "select"
    /\ UNCHANGED <<args, m_rest>>

\* The batch loop reaches find_and_click_video_option(driver) for its next
\* target: the call has no second argument.
M_BatchSelect ==
    /\ m_pc = "batch_target"
    /\ CallSelector([given |-> FALSE, on |-> {}])
    /\ m_harvest' = <<>>
    /\ m_pc' = "select"
    /\ UNCHANGED <<args, m_rest>>

\* main builds source_flags from the six flags of the command line and
\* calls find_and_click_video_option(driver, source_flags).
M_SingleSelect ==
    /\ m_pc = "single_target"
    /\ CallSelector([given |-> TRUE, on |-> args.flags])
    /\ m_harvest' = <<>>
    /\ m_pc' = "select"
    /\ UNCHANGED <<args, m_rest>>

\* The selector returned success False to the batch loop: `continue`.
M_BatchSelectFailed ==
    /\ m_pc = "select"
    /\ args.rokuall
    /\ s_pc = "returned"
    /\ ~s_ret[1]
    /\ m_pc' = "batch_target"
    /\ UNCHANGED <<args, m_harvest, svars, m_rest>>

\* The selector returned success False to main: `raise Exception`.
M_SingleSelectFailed ==
    /\ m_pc = "select"
    /\ ~args.rokuall
    /\ s_pc = "returned"
    /\ ~s_ret[1]
    /\ m_pc' = "raised"
    /\ UNCHANGED <<args, m_harvest, svars, m_rest>>

\* The selector returned success True: is_netu is its second value, the
\* resolver returns a URL or None, and find_m3u8_links is called. The batch
\* loop then goes on to its next target, main to its end.
M_Harvest ==
    /\ m_pc = "select"
    /\ s_pc = "returned"
    /\ s_ret[1]
    /\ \E url \in {None, <<"redirect-url">>} :
          m_harvest' = <<HarvestMode(url, s_ret[2])>>
    /\ m_pc' = IF args.rokuall THEN "batch_target" ELSE "done"
    /\ UNCHANGED <<args, svars, m_rest>>

\* One run of main with any combination of --rokuall and the six
\* restriction flags.
InitMain ==
    /\ BatchIdle
    /\ VerifierIdle
    /\ installed = {}
    /\ OthersIdle("main")
    /\ m_pc = "start"
    /\ args \in [rokuall : BOOLEAN, flags : SUBSET FlagNames]
    /\ m_harvest = <<>>

NextMain ==
    \/ M_Dispatch
    \/ M_BatchSelect
    \/ M_SingleSelect
    \/ M_BatchSelectFailed
    \/ M_SingleSelectFailed
    \/ M_Harvest
    \/ S_Enter
    \/ S_Found
    \/ S_NotFound
    \/ S_Click
    \/ S_ClickRaises
    \/ S_Settled

SpecMain == InitMain /\ [][NextMain]_vars

-----------------------------------------------------------------------------
(* Properties *)

\* Equality of titles as the history guard means it: case-insensitive,
\* surrounding blanks ignored.
SameTitle(a, b) == Lower(Strip(a)) = Lower(Strip(b))

WellFormedLine(line) == Len(line) >= 2

\* Catalog entry k is well-formed and its title is in the history that was
\* on disk when the run started.
InHistory0(k) ==
    /\ Len(movies[k]) = 2
    /\ \E n \in DOMAIN history0.lines :
          /\ WellFormedLine(history0.lines[n])
          /\ SameTitle(history0.lines[n][1], movies[k][1])

WritesOf(k, f) == SelectSeq(writes, LAMBDA w : w.target = k /\ w.file = f)

\* C1: every browser session started for a target is closed (driver.quit)
\* before the processing of that target ends, on every exit path after the
\* browser started, the session-configuration steps included: between
\* targets and at the end of the run no session is open, and the only
\* session ever open is the one of the target being processed.
C1_SessionClosedOnEveryPath ==
    /\ sessions \subseteq {i}
    /\ pc \in {"loop", "chrome", "done", "aborted"} => sessions = {}

\* C2: for every catalog target whose title matches, case-insensitively, the
\* first segment of a line of the history loaded at batch start, no browser
\* session is opened, no player is spawned and nothing is written.
C2_HistoryGuard ==
    \A k \in DOMAIN movies :
        InHistory0(k) =>
            /\ k \notin opened_for
            /\ \A n \in DOMAIN procs : procs[n].target # k
            /\ \A n \in DOMAIN writes : writes[n].target # k
            /\ \A pair \in verified : pair[1] # k

\* C2 witness: the run is over and it passed a catalog entry "MX" that the
\* history held as "mX", and an entry "Y" that the history held as "y ".
C2_Witness ==
    /\ pc = "done"
    /\ \E k \in DOMAIN movies :
          /\ InHistory0(k)
          /\ movies[k][1] = TitleMX
          /\ history0.lines = <<HistoryBad, HistoryMx>>
    /\ Len(movies) = MaxMovies

\* C3: once a title is in the history file, loaded at batch start or
\* appended earlier in this run, no later catalog entry with the same title
\* (case-insensitive) gets a session opened: whenever the run is about to
\* start a browser for `title`, no history line on disk carries that title.
C3_NeverReprocessed ==
    pc = "chrome" =>
        ~ \E n \in DOMAIN history.lines :
              /\ WellFormedLine(history.lines[n])
              /\ SameTitle(history.lines[n][1], title)

\* Target n of `succeeded` has its entry in the manifest text.
InManifest(text, n) ==
    \E a \in DOMAIN text :
        /\ text[a].tag = "item"
        /\ text[a].title = succeeded[n].title
        /\ text[a].url = succeeded[n].link

\* Target n of `succeeded` has its line in the history file.
InHistory(n) ==
    \E b \in DOMAIN history.lines :
        history.lines[b] = <<succeeded[n].title, succeeded[n].link>>

\* C4 as stated: at every point of a batch run, so wherever a crash stops
\* it, the manifest on disk and the history on disk hold every target of
\* the run that completed successfully so far.
C4_CrashLosesOnlyInFlight ==
    \A n \in DOMAIN succeeded :
        InManifest(manifest.text, n) /\ InHistory(n)

\* C4 as amended: at every point of a batch run the history on disk and the
\* manifest text kept in memory hold every target that completed
\* successfully so far, and so does the manifest on disk unless the file is
\* being rewritten or its last rewrite failed after the open emptied it.
C4_IncrementalWrites ==
    \A n \in DOMAIN succeeded :
        /\ InHistory(n)
        /\ InManifest(content, n)
        /\ manifest.text # <<>> => InManifest(manifest.text, n)

\* C4 witness: a browser is about to be started for a target while an
\* earlier target of the run completed successfully, over a manifest that
\* existed before the run.
C4_Witness ==
    /\ pc = "chrome"
    /\ Len(succeeded) >= 1
    /\ manifest0.exists
    /\ manifest.text # <<>>

\* C5: after any sequence of completed manifest writes the file is one
\* opening root tag, the entries in the order they were appended, and
\* exactly one closing root tag at the end, and every entry written earlier
\* is still present, unchanged.
C5_ManifestAppendOnly ==
    (manifest.exists /\ manifest.text # <<>>) =>
        LET text == manifest.text
            old == Items(manifest0.text)
            its == Items(text)
        IN  /\ Head(text) = OpenTag
            /\ text[Len(text)] = CloseTag
            /\ Len(SelectSeq(text, LAMBDA tok : tok = CloseTag)) = 1
            /\ Len(SelectSeq(text, LAMBDA tok : tok = OpenTag)) = 1
            /\ Len(its) >= Len(old)
            /\ \A n \in DOMAIN old : its[n] = old[n]

\* C6: per target at most one manifest entry and at most one history line
\* are written, both carry the same link, that link passed the
\* orchestrator's automated playback verification before either write, and
\* nothing is written for a target without a verified link; the link is
\* the one found in the two files.
C6_OneVerifiedLinkPersisted ==
    /\ \A k \in DOMAIN movies :
          /\ Len(WritesOf(k, "manifest")) <= 1
          /\ Len(WritesOf(k, "history")) <= 1
          /\ \A n \in DOMAIN writes :
                writes[n].target = k => <<k, writes[n].link>> \in verified
          /\ \A a, b \in DOMAIN writes :
                writes[a].target = k /\ writes[b].target = k
                    => writes[a].link = writes[b].link
    /\ pc = "quit" =>
          LET its == Items(manifest.text)
          IN  /\ its[Len(its)].url = history.lines[Len(history.lines)][2]
              /\ <<i, its[Len(its)].url>> \in verified

\* C6 witness: a target whose first harvested link failed verification and
\* whose second link was verified has been written to both files.
C6_Witness ==
    /\ pc = "quit"
    /\ b_j = 2
    /\ Len(WritesOf(i, "manifest")) = 1
    /\ Len(WritesOf(i, "history")) = 1

\* C7: in automated mode the verifier spawns players strictly in the order
\* of the candidate sequence; it returns True for the first candidate whose
\* process was alive at every liveness check, having terminated that
\* process and spawned nothing for later candidates; a candidate whose
\* process was found dead is skipped; with every candidate exhausted the
\* result is False.
C7_AutomatedInOrder ==
    auto_test =>
        /\ \A n \in DOMAIN procs :
              /\ procs[n].idx <= v_i
              /\ procs[n].link = filtered_links[procs[n].idx]
              /\ \A m \in DOMAIN procs : m < n => procs[m].idx < procs[n].idx
              /\ (n < Len(procs) \/ procs[n].idx < v_i)
                    => procs[n].state = "exited"
        /\ (vpc = "returned" /\ v_ret = "True") =>
              /\ procs # <<>>
              /\ procs[Len(procs)].idx = v_i
              /\ procs[Len(procs)].state = "terminated"
              /\ procs[Len(procs)].checks = 2
        /\ (vpc = "returned" /\ v_ret = "False" /\ installed # {}) =>
              /\ v_i = Len(filtered_links)
              /\ \A n \in DOMAIN procs :
                    procs[n].state = "exited" /\ procs[n].checks < 2

\* C7 witness: three candidates; the first process died at the first check,
\* the second at the second check, the third survived and was terminated.
C7_Witness ==
    /\ auto_test
    /\ vpc = "returned"
    /\ v_ret = "True"
    /\ Len(procs) = 3
    /\ procs[1].checks = 0
    /\ procs[2].checks = 1
    /\ procs[3].state = "terminated"

\* C8: at most one player process spawned by the verifier runs at any time;
\* when the verifier advances to the next candidate or returns, the process
\* of the candidate it leaves is no longer running, on every exit path; the
\* only process running at return is one confirmed with 'yes'.
C8_PlayerHeldExclusively ==
    /\ Cardinality(Running(procs)) <= 1
    /\ vpc \in {"lookup", "spawn"} => Running(procs) = {}
    /\ (vpc = "returned" /\ Running(procs) # {}) =>
          ~auto_test /\ v_ret = "True"

ExcludedLinks == {LinkSwiftStream, LinkJonathan}

C10_NoPlayerAborts ==
    installed = {} =>
        /\ procs = <<>>
        /\ looked_up <= 1
        /\ v_i <= 1
        /\ vpc \in {"call", "lookup", "returned"}
        /\ vpc = "returned" => v_ret = "False"

\* C10 witness: no executable, several candidates left after the filter,
\* and the call has returned after looking once.
C10_Witness ==
    /\ installed = {}
    /\ vpc = "returned"
    /\ Len(filtered_links) >= 2
    /\ looked_up = 1

\* What the answer "yes" does: the call returns True and the process that
\* was prompted about is still running.
AnsweredYes ==
    /\ vpc' = "returned"
    /\ v_ret' = "True"
    /\ procs' = procs
    /\ procs[Len(procs)].state = "running"

\* What the answer "no" does: the process that was prompted about is
\* terminated in the same step, no process is spawned by it, and the
\* verifier is at the next candidate (or returns False after the last).
AnsweredNo ==
    /\ Len(procs') = Len(procs)
    /\ procs'[Len(procs)].state = "terminated"
    /\ \A k \in 1..(Len(procs) - 1) : procs'[k] = procs[k]
    /\ IF v_i < Len(filtered_links)
       THEN vpc' = "lookup" /\ v_i' = v_i + 1 /\ v_ret' = v_ret
       ELSE vpc' = "returned" /\ v_ret' = "False"

\* What any other answer does: nothing but another prompt.
AnsweredOther ==
    /\ vpc' = "prompt"
    /\ procs' = procs
    /\ v_i' = v_i
    /\ v_ret' = v_ret
    /\ filtered_links' = filtered_links

\* The prompt is reached only in interactive mode, for a process found
\* alive at the first check.
PromptedAfterAliveCheck ==
    vpc = "prompt" =>
        /\ ~auto_test
        /\ procs # <<>>
        /\ procs[Len(procs)].idx = v_i
        /\ procs[Len(procs)].state = "running"
        /\ procs[Len(procs)].checks = 1

\* C11 as stated: only the answers that are exactly "yes" or "no" end the
\* prompting; every other line typed changes nothing and prompts again.
C11_ExactAnswers ==
    [][(vpc = "prompt" /\ prompts' = prompts + 1) =>
          IF response' = <<"y", "e", "s">> THEN AnsweredYes
          ELSE IF response' = <<"n", "o">> THEN AnsweredNo
          ELSE AnsweredOther]_vars

\* C11 as amended: in interactive mode the prompt follows a first check that
\* found the process alive; an answer that is "yes" or "no" once lower-cased
\* and stripped of surrounding blanks ends the prompting ("yes" returns True
\* with the process running, "no" terminates the process before anything
\* else is spawned and moves on to the next candidate); every other answer
\* changes nothing and prompts again.
C11_NormalizedAnswers ==
    /\ []PromptedAfterAliveCheck
    /\ [][(vpc = "prompt" /\ prompts' = prompts + 1) =>
            IF response' \in {<<"y", "e", "s">>, <<"Y", "E", "S">>}
            THEN AnsweredYes
            ELSE IF response' \in {<<"n", "o">>, <<"N", "o", " ">>}
            THEN AnsweredNo
            ELSE AnsweredOther]_vars

\* C11 witness: the first candidate was prompted about twice, the second
\* answer was "No " and the verifier is at the second candidate with the
\* first process terminated.
C11_Witness ==
    /\ ~auto_test
    /\ vpc = "lookup"
    /\ v_i = 2
    /\ prompts = 2
    /\ response = <<"N", "o", " ">>
    /\ Len(procs) = 1
    /\ procs[1].state = "terminated"

\* The six options in the order of the default attempt list.
SixInOrder ==
    <<"vidhide_hd", "filemoon_hd", "voesx_hd",
      "vidhide_cam", "filemoon_cam", "voesx_cam">>

\* Position of an option in SixInOrder.
Rank(o) == CHOOSE k \in DOMAIN SixInOrder : SixInOrder[k] = o

\* At most one option was clicked, it is the one looked up last, and the
\* call returns True exactly after the settle delay that follows a click.
OneClickThenSettle ==
    /\ Len(s_clicked) <= 1
    /\ s_clicked # <<>> => s_clicked[1] = s_looked[Len(s_looked)]
    /\ s_settled => s_clicked # <<>>
    /\ s_ret = <<TRUE, FALSE>> <=> s_settled
    /\ s_ret \in {NotReturned, <<TRUE, FALSE>>, <<FALSE, FALSE>>}

\* C12: with no flag set the options are looked up in the order vidhide-HD,
\* filemoon-HD, voesx-HD, vidhide-CAM, filemoon-CAM, voesx-CAM; nothing is
\* looked up after a click, at most one option is clicked, True is returned
\* only after the settle delay and False only after all six attempts.
C12_DefaultOrder ==
    source_flags.on = {} =>
        /\ Len(s_looked) <= Len(SixInOrder)
        /\ \A k \in DOMAIN s_looked : s_looked[k] = SixInOrder[k]
        /\ OneClickThenSettle
        /\ s_ret = <<FALSE, FALSE>> =>
              /\ s_looked = SixInOrder
              /\ s_clicked = <<>>

\* C12 witness: an empty dictionary, the three HD options failed, the first
\* CAM option was clicked and the call returned True.
C12_Witness ==
    /\ ~source_flags.given
    /\ s_ret = <<TRUE, FALSE>>
    /\ s_looked = <<"vidhide_hd", "filemoon_hd", "voesx_hd", "vidhide_cam">>
    /\ s_clicked = <<"vidhide_cam">>
    /\ "filemoon_cam" \in s_page

\* C13: with at least one flag set, only flagged options are looked up or
\* clicked, in the order HD before CAM and vidhide, filemoon, voesx inside a
\* group, none of them skipped; False is returned once every flagged option
\* failed, whatever other options the page offers.
C13_FlaggedOnly ==
    source_flags.on # {} =>
        /\ \A k \in DOMAIN s_looked : s_looked[k] \in source_flags.on
        /\ \A k \in DOMAIN s_clicked : s_clicked[k] \in source_flags.on
        /\ \A j, k \in DOMAIN s_looked :
              j < k => Rank(s_looked[j]) < Rank(s_looked[k])
        /\ \A k \in DOMAIN s_looked : \A f \in source_flags.on :
              Rank(f) < Rank(s_looked[k]) =>
                  \E j \in 1..(k - 1) : s_looked[j] = f
        /\ OneClickThenSettle
        /\ s_ret = <<FALSE, FALSE>> =>
              /\ {s_looked[k] : k \in DOMAIN s_looked} = source_flags.on
              /\ s_clicked = <<>>

\* C13 witness: two flags set, both options failed, the call returned False
\* although the page offers an option that is not flagged.
C13_Witness ==
    /\ source_flags.on = {"voesx_hd", "vidhide_cam"}
    /\ s_page = {"filemoon_hd", "vidhide_cam"}
    /\ s_ret = <<FALSE, FALSE>>
    /\ s_looked = <<"voesx_hd", "vidhide_cam">>

\* The first element of links, in sequence order, that satisfies P.
FirstThat(links, P(_)) ==
    links[CHOOSE k \in DOMAIN links :
              /\ P(links[k])
              /\ \A j \in 1..(k - 1) : ~P(links[j])]

\* The result the three rules give for p_links, with Idx and Mst telling
\* which candidates count as containing "index" and "master".
RuleResult(Idx(_), Mst(_)) ==
    IF p_links = <<>> THEN None
    ELSE IF \E k \in DOMAIN p_links : Idx(p_links[k]) /\ ~Mst(p_links[k])
    THEN FirstThat(p_links, LAMBDA l : Idx(l) /\ ~Mst(l))
    ELSE IF \E k \in DOMAIN p_links : ~Mst(p_links[k])
    THEN FirstThat(p_links, LAMBDA l : ~Mst(l))
    ELSE p_links[1]

\* The candidate has the word as it is written, in lower case.
HasWord(link, word) == \E k \in DOMAIN link : link[k] = word

\* The candidate has the word in lower or in upper case.
HasWordAnyCase(link, lower, upper) ==
    \E k \in DOMAIN link : link[k] \in {lower, upper}

\* C14 as stated: the result is the first candidate that contains "index"
\* and not "master", else the first that does not contain "master", else the
\* first candidate; none exactly for the empty sequence.
C14_RulesAsWritten ==
    p_pc = "returned" =>
        p_ret = RuleResult(LAMBDA l : HasWord(l, "index"),
                           LAMBDA l : HasWord(l, "master"))

\* C14 as amended: the same three rules with both words looked for in the
\* lower-cased candidate, so in any case; none is returned exactly for the
\* empty sequence and every other result is an element of the input.
C14_RulesIgnoringCase ==
    p_pc = "returned" =>
        /\ p_ret = RuleResult(LAMBDA l : HasWordAnyCase(l, "index", "INDEX"),
                              LAMBDA l : HasWordAnyCase(l, "master", "MASTER"))
        /\ p_ret = None <=> p_links = <<>>
        /\ p_ret # None => \E k \in DOMAIN p_links : p_links[k] = p_ret

\* C14 witness: a master link, a link with both words, then two index
\* links; the upper-case one is returned because it comes first.
C14_Witness ==
    /\ p_pc = "returned"
    /\ p_links = << <<"c/", "index", "_", "master", ".m3u8">>,
                    <<"d/", "INDEX", ".m3u8">>,
                    <<"b/", "index", ".m3u8">> >>
    /\ p_ret = <<"d/", "INDEX", ".m3u8">>

\* The entry is a response-received record that carries this URL.
ResponseRecordOf(entry, url) ==
    /\ entry.method = <<"Network.responseReceived">>
    /\ entry.response = url

C16_TopLevelRestored ==
    (~h_is_netu /\ h_pc \in {"frames", "final", "returned"}) => h_context = 0

\* The result of the special-provider mode when the inspection of the
\* frames did not fail: the src of the first frame with the marker.
FirstMarkedSrc ==
    IF \E k \in DOMAIN h_frames : \E n \in DOMAIN h_frames[k] :
           h_frames[k][n] = "waaw.to"
    THEN << h_frames[CHOOSE k \in DOMAIN h_frames :
                /\ \E n \in DOMAIN h_frames[k] : h_frames[k][n] = "waaw.to"
                /\ \A j \in 1..(k - 1) : \A n \in DOMAIN h_frames[j] :
                      h_frames[j][n] # "waaw.to"] >>
    ELSE <<>>

\* C17: in special-provider mode no get_log call is made and no frame is
\* switched into, and the result is the one-element sequence with the src
\* of the first frame whose src has the marker "waaw.to", or the empty
\* sequence when there is no such frame or the inspection failed.
C17_SpecialProviderMode ==
    h_is_netu =>
        /\ h_scans = <<>>
        /\ h_switches = <<>>
        /\ h_context = 0
        /\ h_seen = {}
        /\ h_pc = "returned" =>
              h_ret = IF h_failed THEN <<>> ELSE FirstMarkedSrc

\* C17 witness: two frames whose src has the marker; the src of the first
\* of the two was returned.
C17_Witness ==
    /\ h_is_netu
    /\ h_pc = "returned"
    /\ Len(h_frames) = 2
    /\ h_frames[1] = <<"https://", "waaw.to", "/e/2">>
    /\ h_frames[2] = <<"https://", "waaw.to", "/e/1">>
    /\ h_ret = << <<"https://", "waaw.to", "/e/2">> >>

\* C18: a call that ended in "redirected" returned the new URL, which is
\* not the player URL, and the elapsed seconds it reported are the whole
\* seconds since the polling of this call began.
C18_RedirectedCarriesElapsed ==
    r_end = "redirected" =>
        /\ r_ret = UrlRedirected
        /\ r_ret # r_frames[r_navs[1]]
        /\ r_elapsed = r_waited

\* C19: in one call the polling loops take at most 30 seconds in total and
\* read the current URL about 30 times at most (here: no more than 32), on
\* every path, and a call that ended in "timed out" returned no URL.
C19_PollingBounded ==
    /\ r_waited <= 30
    /\ r_polls <= 32
    /\ r_end = "timed_out" => r_ret = None

\* C20: in one call at most one frame is navigated to; once a frame was
\* navigated to, the src of no further frame is obtained; and a call in
\* which a provider branch failed internally returns None.
C20_OneFrameActedOn ==
    /\ Len(r_navs) <= 1
    /\ r_navs # <<>> => r_read[Len(r_read)] = r_navs[1]
    /\ (r_failed /\ r_pc = "returned") => r_ret = None

\* C20 witness: two voe.sx frames; the logo of the first never appeared and
\* the call is over without a navigation to the second.
C20_Witness ==
    /\ r_frames = << <<"https://", "voe.sx", "/e/abc">>,
                     <<"https://", "voe.sx", "/e/abc">> >>
    /\ r_failed
    /\ r_pc = "returned"
    /\ r_navs = <<1>>
    /\ r_k = 2

\* k failed attempts that were retried: each a timeout, then one sleep.
Retried(k) ==
    [j \in 1..(2 * k) |-> IF j % 2 = 1 THEN "timeout" ELSE "sleep"]

\* How the last call of func ended, as the log names it.
EndOf(out) ==
    IF out.kind = "returned" THEN "returned"
    ELSE IF out.what = "TimeoutException" THEN "timeout" ELSE "other"

\* C21: a function decorated with retry_on_timeout(retries = n, delay = d),
\* n >= 1, is called at most n times; every call before the last one timed
\* out and was followed by exactly one sleep of d seconds; the call that
\* returns ends the wrapper with its value; a timeout leaves the wrapper only
\* from the n-th call, as the exception that call raised and with no sleep
\* after it; any other exception leaves the wrapper from the call that
\* raised it.
C21_RetryOnTimeout ==
    retries >= 1 =>
        /\ w_pc = "loop" =>
              /\ w_attempt < retries
              /\ w_log = Retried(w_attempt)
              /\ w_slept = w_attempt * delay
        /\ w_pc = "done" =>
              /\ w_out.at < retries
              /\ w_log = Append(Retried(w_out.at), EndOf(w_out))
              /\ w_slept = w_out.at * delay
              /\ w_out.kind = "returned" => w_out.what \in FuncResults
              /\ w_out.kind = "raised" =>
                    w_out.what \in OtherExceptions \cup {"TimeoutException"}
              /\ w_out.what = "TimeoutException" => w_out.at = retries - 1

\* The third call of three timed out and its exception left the wrapper,
\* after two sleeps.
C21_Witness ==
    /\ w_pc = "done"
    /\ retries = 3
    /\ delay = 2
    /\ w_out = [kind |-> "raised", what |-> "TimeoutException", at |-> 2]
    /\ w_slept = 4

\* k click attempts that were retried: each intercepted, then one sleep(2).
Intercepted(k) ==
    [j \in 1..(2 * k) |-> IF j % 2 = 1 THEN "intercepted" ELSE "sleep"]

\* The target left the pipeline at the dropdown click.
ClickSurfaced ==
    /\ pc # "click"
    /\ Len(steps) >= 2
    /\ steps[Len(steps) - 1] = "click_failed"
    /\ steps[Len(steps)] = "session_close"

\* C22: the dropdown click is attempted at most 3 times for a target; every
\* attempt before the last one was intercepted and followed by one sleep of
\* 2 s; a third interception, and a failure of any other kind at any
\* attempt, ends the loop at once and reaches the loop handler (the session
\* is closed and the target skipped); a click that went through is the last
\* attempt.
C22_DropdownClickLoop ==
    \/ d_clicks = <<>> /\ attempt = 0
    \/ \E k \in 0..2 :
          \/ /\ d_clicks = Intercepted(k) /\ k > 0
             /\ pc = "click"
             /\ attempt = k
          \/ /\ d_clicks = Intercepted(k) \o <<"clicked", "sleep">>
             /\ pc = "select" \/ steps[Len(steps)] = "session_close"
             /\ ~ClickSurfaced
          \/ /\ d_clicks = Append(Intercepted(k), "raised")
             /\ ClickSurfaced
          \/ /\ d_clicks = Append(Intercepted(2), "intercepted")
             /\ ClickSurfaced

\* The third attempt of a target went through, after two interceptions.
C22_Witness ==
    /\ pc = "select"
    /\ d_clicks = Intercepted(2) \o <<"clicked", "sleep">>

\* C23: when the wait for the dropdown control times out and the timeout
\* reaches the loop handler (the target is closed and skipped), the wait had
\* been retried: an earlier wait of the same target had timed out before it.
C23_TimeoutAfterRetries ==
    \A k \in DOMAIN steps :
        (steps[k] = "wait_timed_out" /\ k < Len(steps)
            /\ steps[k + 1] = "session_close") =>
        (k > 1 /\ steps[k - 1] = "wait_timed_out")

\* C24: a catalog line that does not split into exactly two parts at ' | '
\* is ignored wherever it stands: no browser is started for it and the run
\* does not end at it.
C24_MalformedLineIgnored ==
    \A k \in DOMAIN movies :
        Len(movies[k]) # 2 =>
            /\ k \notin opened_for
            /\ ~(pc = "aborted" /\ i = k)

\* C25: the run ends only after the last catalog line: when it is over,
\* every line has been skipped or attempted.
C25_EndsAfterLastTarget ==
    pc \in {"done", "aborted"} => i > Len(movies)

\* C26: at every point of a batch run at most one browser is running.
C26_OneSessionAtATime ==
    Cardinality(sessions) <= 1

\* The process of a candidate the verifier has moved on from, or returned
\* after.
LeftBehind(n) ==
    n < Len(procs) \/ procs[n].idx < v_i \/ vpc = "returned"

C29_OneClickPerCall ==
    Len(r_clicks) <= 1

\* The call navigated to a voe.sx frame.
VoeNavigated ==
    /\ r_navs # <<>>
    /\ IsVoe(r_frames[r_navs[1]])

\* C30 as stated: after the navigation to a voe.sx frame the call returns
\* no URL only when the wait for the logo or the click failed.
C30_NoneOnlyAfterLogoOrClickFailed ==
    (r_pc = "returned" /\ VoeNavigated /\ r_ret = None) => r_failed

\* C30, amended: once the logo was found and clicked, the call returns the
\* current URL as it is 3 s later, the frame src included, without reading
\* the URL more than once; a call that navigated to a voe.sx frame returns
\* no URL only when the navigation raised or the branch ended in its handler.
C30_LogoClickReturnsCurrentUrl ==
    /\ r_end = "logo" =>
          /\ VoeNavigated
          /\ r_ret \in {r_frames[r_navs[1]], UrlRedirected}
          /\ ~r_failed
    /\ VoeNavigated =>
          /\ r_polls = 0 /\ r_waited = 0 /\ r_clicks = <<>>
          /\ (r_pc = "returned" /\ r_ret = None) =>
                (r_failed \/ (r_end = "error" /\ r_k = r_navs[1]))

\* The logo was clicked and the URL returned is the src of the frame.
C30_Witness ==
    /\ r_end = "logo"
    /\ r_ret = r_frames[r_navs[1]]

\* The place of each step in the pipeline of one target; a step that failed
\* has the place of the step.
StepRank ==
    [session_open |-> 1, details_scrape |-> 2, no_details |-> 2,
     overlay_removal |-> 3, dropdown_wait |-> 4, wait_timed_out |-> 4,
     dropdown_click |-> 5, click_failed |-> 5, option_selection |-> 6,
     no_option |-> 6, redirect_resolution |-> 7, resource_harvest |-> 8,
     empty_harvest |-> 8, rejected |-> 9, verification |-> 10,
     format |-> 11, format_rejected |-> 11, manifest_write |-> 12,
     history_append |-> 13, session_close |-> 14]

\* Step k of the target comes right after the step named `before`.
RightAfter(k, before) == k > 1 /\ steps[k - 1] = before

\* Step k of the target comes after a step named `before`.
After(k, before) == \E j \in 1..(k - 1) : steps[j] = before

\* C27: the steps of one target happen in the fixed order session open,
\* details scrape, overlay removal, dropdown click, option selection,
\* redirect resolution, resource harvest, verification, manifest write,
\* history append, session close (only a rejected candidate is followed by
\* the same step again); the resolver runs right after the selector reported
\* success, the harvester right after the resolver returned, the verifier
\* only after a non-empty harvest, the manifest is written only after a
\* candidate of the target was verified, and the history is appended right
\* after the manifest write.
C27_PipelineOrder ==
    /\ steps # <<>> => steps[1] = "session_open"
    /\ \A a, b \in DOMAIN steps :
          a < b =>
              \/ StepRank[steps[a]] < StepRank[steps[b]]
              \/ steps[a] = "rejected" /\ steps[b] = "rejected"
    /\ \A k \in DOMAIN steps :
          /\ steps[k] = "redirect_resolution" =>
                RightAfter(k, "option_selection")
          /\ steps[k] \in {"resource_harvest", "empty_harvest"} =>
                RightAfter(k, "redirect_resolution")
          /\ steps[k] \in {"verification", "rejected"} =>
                After(k, "resource_harvest")
          /\ steps[k] = "manifest_write" =>
                /\ After(k, "verification")
                /\ pc \in {"write_history", "quit"} =>
                      \E link \in PageLinks : <<i, link>> \in verified
          /\ steps[k] = "history_append" =>
                RightAfter(k, "manifest_write")

\* A target went through every step, after one rejected candidate.
C27_Witness ==
    steps = <<"session_open", "details_scrape", "overlay_removal",
              "dropdown_wait", "dropdown_click", "option_selection",
              "redirect_resolution", "resource_harvest", "rejected",
              "verification", "format", "manifest_write", "history_append",
              "session_close">>

\* The place of a scan phase in find_m3u8_links.
PhaseRank == [top |-> 1, frame |-> 2, final |-> 3]

\* The entry is a response-received record of a URL with the stream marker.
StreamResponse(entry) ==
    /\ entry.method = <<"Network.responseReceived">>
    /\ entry.response # NoField
    /\ \E n \in DOMAIN entry.response : entry.response[n] = ".m3u8"

\* C31: in normal mode the scans are made in the order top-level scan, frame
\* scans, final scan: the first scan is the top-level one, it and the final
\* one are made once, a frame is scanned at most once and the frames are
\* scanned in page order; the final scan is the last thing before the
\* return, and the result holds the URL of every stream response record read
\* by any scan, the ones only the final scan read included.
C31_ThreePhases ==
    ~h_is_netu =>
        /\ h_scans # <<>> => h_scans[1][1] = "top"
        /\ \A a, b \in DOMAIN h_scans :
              a < b =>
                  \/ PhaseRank[h_scans[a][1]] < PhaseRank[h_scans[b][1]]
                  \/ /\ h_scans[a][1] = "frame" /\ h_scans[b][1] = "frame"
                     /\ h_scans[a][2] < h_scans[b][2]
        /\ \A k \in DOMAIN h_scans :
              h_scans[k][1] = "frame" => h_scans[k][2] \in DOMAIN h_frames
        /\ h_pc = "returned" =>
              /\ h_scans[Len(h_scans)][1] = "final"
              /\ \A entry \in h_seen :
                    StreamResponse(entry) =>
                        \E k \in DOMAIN h_ret : h_ret[k] = entry.response
              /\ \A url \in h_late : \E k \in DOMAIN h_ret : h_ret[k] = url
        /\ h_pc # "returned" => h_late = {}

\* Two frames were scanned, and a URL that only the final scan read is in
\* the result.
C31_Witness ==
    /\ ~h_is_netu
    /\ h_pc = "returned"
    /\ Len(h_frames) = 2
    /\ Len(h_scans) = 4
    /\ h_late = {LinkMaster}
    /\ \E k \in DOMAIN h_ret : h_ret[k] = LinkMaster

\* C32 as stated: the harvester is called in normal mode if and only if the
\* resolver returned a URL.
C32_NormalIffRedirect ==
    harvested # <<>> =>
        (~harvested[1].special <=> harvested[1].redirect)

\* C32, amended: after a redirect the harvester is called with the flag
\* False; without one it is called with the flag the selector returned for
\* the target, which is itself False.
C32_ModeAfterResolver ==
    /\ harvested # <<>> =>
          /\ harvested[1].redirect => ~harvested[1].special
          /\ ~harvested[1].redirect =>
                harvested[1].special = harvested[1].flag
          /\ ~harvested[1].flag
    /\ pc = "harvest" =>
          /\ harvested = <<>>
          /\ final_url \in {None, <<"redirect-url">>}

\* The resolver of the first target returned nothing, the harvester was
\* called in normal mode and returned two links.
C32_Witness ==
    /\ pc = "verify"
    /\ harvested = <<[target |-> 1, redirect |-> FALSE, flag |-> FALSE,
                      special |-> FALSE]>>
    /\ Len(video_links) = 2

\* The harvest of the target of `harvested` was empty, and the target was
\* left through `continue`.
EmptyHarvest ==
    /\ harvested # <<>>
    /\ Len(steps) >= 2
    /\ steps[Len(steps) - 1] = "empty_harvest"
    /\ steps[Len(steps)] = "session_close"

\* C33: after an empty harvest no player was spawned for the target, nothing
\* was written for it, its browser is closed, the run has not ended in an
\* exception at it and the loop is at a later catalog line.
C33_EmptyHarvestSkips ==
    EmptyHarvest =>
        /\ \A n \in DOMAIN procs : procs[n].target # harvested[1].target
        /\ \A n \in DOMAIN writes : writes[n].target # harvested[1].target
        /\ \A n \in DOMAIN succeeded :
              succeeded[n].target # harvested[1].target
        /\ \A link \in PageLinks :
              <<harvested[1].target, link>> \notin verified
        /\ harvested[1].target \notin sessions
        /\ i > harvested[1].target
        /\ pc \in {"loop", "done"}

\* The harvest of the first of two targets was empty and the loop is at the
\* second target.
C33_Witness ==
    /\ Len(movies) = 2
    /\ pc = "loop"
    /\ i = 2
    /\ EmptyHarvest
    /\ harvested[1].target = 1

\* The manifest file holds the entry written for catalog line k of this run.
EntryOnDisk(k) ==
    \E n \in DOMAIN writes :
        /\ writes[n].target = k
        /\ writes[n].file = "manifest"
        /\ \E a \in DOMAIN manifest.text :
              /\ manifest.text[a].tag = "item"
              /\ manifest.text[a].url = writes[n].link

\* The history file holds a line with the title of catalog line k, as the
\* history check of a later run would find it.
TitleInHistory(k) ==
    \E b \in DOMAIN history.lines :
        /\ WellFormedLine(history.lines[b])
        /\ SameTitle(history.lines[b][1], movies[k][1])

\* C34: in no state of a batch run, so wherever a crash or a failed write
\* stops or diverts it, the manifest file holds the entry of a target whose
\* title is missing from the history file.
C34_PersistedAsPair ==
    \A k \in DOMAIN movies : EntryOnDisk(k) => TitleInHistory(k)

\* The target was left after its link passed the verification of the
\* orchestrator's loop, because format_roku_xml returned None.
FormatRejected ==
    /\ Len(steps) >= 2
    /\ steps[Len(steps) - 1] = "format_rejected"
    /\ steps[Len(steps)] = "session_close"
    /\ \E k \in DOMAIN steps : steps[k] = "verification"

\* C35: while the formatter works on the link that passed the orchestrator's
\* verification the verifier is not run again, and no target is left
\* without its two writes because the formatter rejected such a link.
C35_VerifiedOncePersisted ==
    /\ pc = "format_wait" => vpc = "idle"
    /\ ~FormatRejected

IsPrefix(s, t) ==
    /\ Len(s) <= Len(t)
    /\ \A k \in DOMAIN s : s[k] = t[k]

====
